---------------------------- MODULE Spec2Model ----------------------------
(***************************************************************************)
(* Verification model of the speedwagon_uiucprescon workflows.             *)
(*                                                                         *)
(* Each workflow is a short pipeline driven by the host application:       *)
(* user arguments -> discover_task_metadata -> create_new_task per job ->  *)
(* subtask work() -> completion_task / generate_report.  The pipelines do  *)
(* not share state, so every workflow has its own group of variables and   *)
(* its own specification; the variables of the other workflows stay at     *)
(* their initial value.                                                    *)
(***************************************************************************)
EXTENDS Integers, Sequences, FiniteSets, TLC

\* ------------------------------------------------------------------------
\* Bounds
\* ------------------------------------------------------------------------
MaxNodes == 4       \* entries of a directory tree, the root included
MaxNamedNodes == 3  \* entries of a tree whose names are also enumerated
MaxRemove == 2      \* length of the confirmed "to remove" list
MaxPackages == 2    \* subdirectories of the checksum Input directory
MaxFiles == 3       \* files under the checksum Input directory
MaxHashLen == 2     \* characters of a hash string
MaxBatch == 2       \* entries of a checksum report that is verified
MaxRecords == 2     \* MARC records of one job
MaxScan == 2        \* entries of the Input directory of the MARC workflow
MaxImages == 2      \* files under the Path of the OCR workflow
MaxLocated == 2     \* packages that locate_packages yields
MaxResults == 3     \* results given to generate_report
MaxShared == 2      \* children of the record two enhancement tasks share
MaxSources == 2     \* entries scanned in the access folders
MaxFields == 3      \* children of the root of a MARC record

\* ------------------------------------------------------------------------
\* Variables
\* ------------------------------------------------------------------------
VARIABLES
    \* --- Medusa preingest: the file system under user_args["Path"] ---
    fsParent,        \* entry -> containing directory (entry 0 is the root)
    fsKind,          \* entry -> "dir" | "file" | "other"
    fsName,          \* entry -> Path.name
    pathForm,        \* spelling of user_args["Path"]: "norm" | "raw"
    mpc,             \* position of the Medusa workflow
    removal_order,   \* list(get_contents_of_folder_for_removal(Path))
    user_args,       \* the options FindOffendingFiles was created with
    checkers,        \* OffendingPathDecider._checkers
    located,         \* FindOffendingFiles.locate_results()
    to_remove,       \* additional_data["to remove"]
    new_tasks,       \* result of discover_task_metadata
    subtasks,        \* subtasks added by create_new_task, in order
    \* --- Make Checksum Batch [Single] / [Multiple] ---
    ck_pc,           \* position of the checksum workflow
    ck_workflow,     \* "single" | "multiple"
    ck_dirs,         \* subdirectories of user_args["Input"]
    ck_files,        \* files under Input, as [dir, name]; dir 0 is Input
    ck_md5,          \* file -> md5 of its content
    ck_jobs,         \* result of discover_task_metadata
    ck_tasks,        \* MakeChecksumTask subtasks
    ck_results,      \* results of the finished subtasks, in finishing order
    ck_sorted,       \* sort_results(...) inside completion_task
    ck_report_tasks, \* MakeCheckSumReportTask subtasks
    ck_written,      \* report files written: [path, entries]
    \* --- Verify Checksum Batch [Single] / [Multiple] ---
    vf_pc,           \* position of the verification workflow
    vf_workflow,     \* "single" (ChecksumTask) | "multiple"
    vf_jobs,         \* result of discover_task_metadata
    vf_tasks,        \* state of the subtask of every job
    vf_results,      \* results of the finished subtasks, in finishing order
    vf_md5,          \* job -> the file on disk: [readable, md5]
    cmp_args,        \* arguments of the last compare(a, b) call pair
    cmp_result,      \* [sensitive, insensitive] results of that call pair
    \* --- Generate MARC.XML Files ---
    mk_pc,           \* position of the MARC workflow
    mk_tasks,        \* MarcGeneratorTask subtasks; result is <<>> until set
    mk_http,         \* HTTP GET requests issued, in order
    mk_files,        \* MARC.XML files on disk: [identifier, content]
    \* --- Generate MARC.XML Files: job discovery ---
    gm_pc,           \* position of the workflow, or the exception it ended in
    gm_config,       \* "Getmarc server url": <<>> when not set
    gm_scan,         \* os.scandir(Input): entries [name, is_dir], in order
    gm_args,         \* user_args: identifier type and the two enhancements
    gm_scanned,      \* entries of gm_scan that the filter has looked at
    gm_error,        \* the exception that escaped, <<>> when none
    gm_jobs,         \* result of discover_task_metadata
    gm_next,         \* jobs for which create_new_task was called
    gm_subtasks,     \* subtasks added by create_new_task, in order
    \* --- Generate OCR Files ---
    oc_pc,           \* position of the OCR workflow
    oc_config,       \* "Tesseract data file location": <<>> when not set
    oc_args,         \* user_args: image file type and language
    oc_files,        \* the files under Path, each given by its extension
    oc_initial_results, \* result of the FindImagesTask
    oc_jobs,         \* result of discover_task_metadata
    oc_next,         \* jobs for which create_new_task was called
    oc_subtasks,     \* subtasks of the job, in the order they were added
    oc_engine,       \* class attribute GenerateOCRFileTask.engine
    oc_error,        \* the exception that escaped, <<>> when none
    \* --- Convert CaptureOne TIFF to DL Compound Object and HathiTrust ---
    co_pc,           \* position of the conversion workflow
    co_args,         \* user_args: package type and the two outputs
    co_locate,       \* what locate_packages(Input) does: [found, fails]
    co_jobs,         \* result of discover_task_metadata
    co_error,        \* the exception that escaped, <<>> when none
    co_next,         \* jobs for which create_new_task was called
    co_subtasks,     \* PackageConverter subtasks, in the order added
    \* --- MARC enhancement ---
    en_pc,           \* position of the enhancement task
    en_tree,         \* the record parsed from MARC.XML
    en_added_value,  \* MarcEnhancement955Task.added_value
    en_result,       \* the root the enhancement returns
    en_file,         \* the record MARC.XML holds
    en_written,      \* the task opened MARC.XML for writing
    en_returned,     \* what work returned (no or one value)
    \* --- the enhancement tasks of one MARC.XML ---
    mf_pc,           \* position of the job
    mf_file,         \* MARC.XML: no record (an empty file) or one record
    mf_added_value,  \* added_value of the 955 task
    mf_tasks,        \* position and parsed tree of each enhancement task
    mf_garbled,      \* MARC.XML holds the remains of two texts
    \* --- checksum verification report ---
    rp_pc,           \* position of the report
    rp_workflow,     \* "single" or "multiple"
    rp_results,      \* the results given to generate_report
    rp_report,       \* what generate_report returns
    \* --- JP2 conversion report ---
    cr_pc,           \* position of the report
    cr_results,      \* the results given to generate_report
    cr_report,       \* what generate_report returns
    \* --- Make JP2 ---
    mj_pc,           \* position of the Make JP2 run
    mj_user_args,    \* the options Input, Output and Profile
    mj_jobs,         \* what discover_task_metadata returned
    mj_next,         \* number of jobs given to create_new_task
    mj_subtasks,     \* the subtasks added, in order
    mj_ran,          \* number of subtasks that have run
    mj_dirs,         \* the folders that exist
    mj_created,      \* the files the conversions created
    \* --- plugin ---
    pl_pc,           \* position of the call of registered_workflows
    pl_expected,     \* the name the caller looks up
    pl_index,        \* position of the comprehension in active_workflows
    pl_mapping,      \* the mapping built so far
    pl_found         \* pl_expected in registered_workflows()

medusaVars == <<fsParent, fsKind, fsName, pathForm, mpc, removal_order,
                user_args, checkers, located, to_remove, new_tasks, subtasks>>

checksumVars == <<ck_pc, ck_workflow, ck_dirs, ck_files, ck_md5, ck_jobs,
                  ck_tasks, ck_results, ck_sorted, ck_report_tasks,
                  ck_written>>

verifyVars == <<vf_pc, vf_workflow, vf_jobs, vf_tasks, vf_results, vf_md5,
                cmp_args, cmp_result>>

marcVars == <<mk_pc, mk_tasks, mk_http, mk_files>>

marcJobVars == <<gm_pc, gm_config, gm_scan, gm_args, gm_scanned, gm_error,
                 gm_jobs, gm_next, gm_subtasks>>

ocrVars == <<oc_pc, oc_config, oc_args, oc_files, oc_initial_results,
             oc_jobs, oc_next, oc_subtasks, oc_engine, oc_error>>

captureVars == <<co_pc, co_args, co_locate, co_jobs, co_error, co_next,
                 co_subtasks>>

enhanceVars == <<en_pc, en_tree, en_added_value, en_result, en_file,
                 en_written, en_returned>>

marcFileVars == <<mf_pc, mf_file, mf_added_value, mf_tasks, mf_garbled>>

reportVars == <<rp_pc, rp_workflow, rp_results, rp_report>>

convertVars == <<cr_pc, cr_results, cr_report>>

makeJp2Vars == <<mj_pc, mj_user_args, mj_jobs, mj_next, mj_subtasks, mj_ran,
                mj_dirs, mj_created>>

pluginVars == <<pl_pc, pl_expected, pl_index, pl_mapping, pl_found>>

vars == <<medusaVars, checksumVars, verifyVars, marcVars, marcJobVars,
          ocrVars, captureVars, enhanceVars, marcFileVars, reportVars,
          convertVars, makeJp2Vars, pluginVars>>

notMedusa == <<checksumVars, verifyVars, marcVars, marcJobVars, ocrVars,
               captureVars, enhanceVars, marcFileVars, reportVars,
               convertVars, makeJp2Vars, pluginVars>>

notChecksum == <<medusaVars, verifyVars, marcVars, marcJobVars, ocrVars,
                 captureVars, enhanceVars, marcFileVars, reportVars,
                 convertVars, makeJp2Vars, pluginVars>>

notVerify == <<medusaVars, checksumVars, marcVars, marcJobVars, ocrVars,
               captureVars, enhanceVars, marcFileVars, reportVars,
               convertVars, makeJp2Vars, pluginVars>>

notMarc == <<medusaVars, checksumVars, verifyVars, marcJobVars, ocrVars,
             captureVars, enhanceVars, marcFileVars, reportVars, convertVars,
             makeJp2Vars, pluginVars>>

notMarcJob == <<medusaVars, checksumVars, verifyVars, marcVars, ocrVars,
                captureVars, enhanceVars, marcFileVars, reportVars,
                convertVars, makeJp2Vars, pluginVars>>

notOcr == <<medusaVars, checksumVars, verifyVars, marcVars, marcJobVars,
            captureVars, enhanceVars, marcFileVars, reportVars, convertVars,
            makeJp2Vars, pluginVars>>

notCapture == <<medusaVars, checksumVars, verifyVars, marcVars, marcJobVars,
                ocrVars, enhanceVars, marcFileVars, reportVars, convertVars,
                makeJp2Vars, pluginVars>>

notEnhance == <<medusaVars, checksumVars, verifyVars, marcVars, marcJobVars,
                ocrVars, captureVars, marcFileVars, reportVars, convertVars,
                makeJp2Vars, pluginVars>>

notMarcFile == <<medusaVars, checksumVars, verifyVars, marcVars, marcJobVars,
                 ocrVars, captureVars, enhanceVars, reportVars, convertVars,
                 makeJp2Vars, pluginVars>>

notReport == <<medusaVars, checksumVars, verifyVars, marcVars, marcJobVars,
               ocrVars, captureVars, enhanceVars, marcFileVars, convertVars,
               makeJp2Vars, pluginVars>>

notConvert == <<medusaVars, checksumVars, verifyVars, marcVars, marcJobVars,
                ocrVars, captureVars, enhanceVars, marcFileVars, reportVars,
                makeJp2Vars, pluginVars>>

notMakeJp2 == <<medusaVars, checksumVars, verifyVars, marcVars, marcJobVars,
                ocrVars, captureVars, enhanceVars, marcFileVars, reportVars,
                convertVars, pluginVars>>

notPlugin == <<medusaVars, checksumVars, verifyVars, marcVars, marcJobVars,
               ocrVars, captureVars, enhanceVars, marcFileVars, reportVars,
               convertVars, makeJp2Vars>>

\* ------------------------------------------------------------------------
\* Medusa preingest: file system
\* ------------------------------------------------------------------------
Kinds == {"dir", "file", "other"}

\* File names are sequences of characters.
DS_STORE == <<".", "D", "S", "_", "S", "t", "o", "r", "e">>

THUMBS_DB == <<"T", "h", "u", "m", "b", "s", ".", "d", "b">>

CAPTURE_ONE == <<"C", "a", "p", "t", "u", "r", "e", "O", "n", "e">>

PLAIN_NAME == <<"a", ".", "_">>    \* "a._", a name no rule flags

Names == {DS_STORE, THUMBS_DB, CAPTURE_ONE, <<".", "_", "a">>, PLAIN_NAME}

\* names of the directory the user selects as Path
RootNames == {CAPTURE_ONE, PLAIN_NAME}

Root == 0

Entries == DOMAIN fsKind

\* A directory tree: entry 0 is the root directory, every other entry lies
\* in a directory with a smaller number.  Path.iterdir lists a directory in
\* ascending entry number, so every ordered tree is one of these.
IsTree(n, parent, kind) ==
    /\ kind[0] = "dir"
    /\ parent[0] = 0
    /\ \A i \in 1..(n - 1) : parent[i] < i /\ kind[parent[i]] = "dir"

RECURSIVE SortedSeq(_)
SortedSeq(S) ==
    IF S = {} THEN <<>>
    ELSE LET m == CHOOSE x \in S : \A y \in S : x <= y
         IN  <<m>> \o SortedSeq(S \ {m})

iterdir(d) == SortedSeq({c \in Entries \ {Root} : fsParent[c] = d})

is_dir(p) == fsKind[p] = "dir"

is_file(p) == fsKind[p] = "file"

\* x lies inside directory d, at any depth
RECURSIVE Inside(_, _)
Inside(x, d) ==
    /\ x # Root
    /\ \/ fsParent[x] = d
       \/ Inside(fsParent[x], d)

\* ------------------------------------------------------------------------
\* get_contents_of_folder_for_removal
\* ------------------------------------------------------------------------
RECURSIVE get_contents_of_folder_for_removal(_)
RECURSIVE WalkItems(_, _, _)

\* the loop over root.iterdir(): what has been yielded, and the files list
WalkItems(items, yielded, files) ==
    IF items = <<>> THEN <<yielded, files>>
    ELSE LET item == Head(items)
         IN  IF is_dir(item)
             THEN WalkItems(Tail(items),
                            yielded \o get_contents_of_folder_for_removal(item),
                            files)
             ELSE WalkItems(Tail(items), yielded, Append(files, item))

\* mutant: the folder is listed before its content
get_contents_root_first(root) ==
    LET loop == WalkItems(iterdir(root), <<>>, <<>>)
    IN  <<root>> \o loop[1] \o loop[2]

\* mutant: the files of a folder are listed before its subfolders
get_contents_files_first(root) ==
    LET loop == WalkItems(iterdir(root), <<>>, <<>>)
    IN  loop[2] \o loop[1] \o <<root>>

get_contents_of_folder_for_removal(root) ==
    LET loop == WalkItems(iterdir(root), <<>>, <<>>)
    IN  loop[1] \o loop[2] \o <<root>>

\* ------------------------------------------------------------------------
\* Path strings.  A string names an entry in one of two spellings: "norm"
\* is what str(pathlib.Path(s)) gives, "raw" is any other spelling of the
\* same location ("./batch/x", "batch//x", "batch/.").
\* ------------------------------------------------------------------------
PathStr(p) == [node |-> p, form |-> "norm"]

PathOf(s) == s.node

\* os.path.join(options["Path"], item) for an item relative to Path; the
\* item of the root itself is ".".
os_path_join(form, item) ==
    [node |-> item, form |-> IF item = Root THEN "raw" ELSE form]

\* ------------------------------------------------------------------------
\* MedusaPreingestCuration.discover_task_metadata
\* ------------------------------------------------------------------------
build_task(item) ==
    IF is_dir(item) THEN [type |-> "directory", path |-> PathStr(item)]
    ELSE IF is_file(item) THEN [type |-> "file", path |-> PathStr(item)]
    ELSE [type |-> "RuntimeError", path |-> PathStr(item)]

\* the inner loop over get_contents_of_folder_for_removal(item)
RECURSIVE ChildLoop(_, _)
ChildLoop(children, st) ==
    IF children = <<>> \/ st.raised THEN st
    ELSE LET child_item == Head(children)
         IN  IF PathStr(child_item) \in st.to_remove
             THEN ChildLoop(Tail(children), st)
             ELSE IF build_task(child_item).type = "RuntimeError"
             THEN [st EXCEPT !.raised = TRUE]
             ELSE ChildLoop(Tail(children),
                     [st EXCEPT
                        !.new_tasks = Append(@, build_task(child_item)),
                        !.to_remove = @ \cup {PathStr(child_item)}])

\* the outer loop over additional_data["to remove"]
RECURSIVE ItemLoop(_, _)
ItemLoop(items, st) ==
    IF items = <<>> \/ st.raised THEN st
    ELSE LET item == Head(items)
             added(s) == [s EXCEPT !.to_remove = @ \cup {item}]
         IN  IF item \in st.to_remove
             THEN ItemLoop(Tail(items), st)
             ELSE IF is_dir(PathOf(item))
             THEN LET inner == ChildLoop(
                        get_contents_of_folder_for_removal(PathOf(item)), st)
                  IN  IF inner.raised THEN inner
                      ELSE ItemLoop(Tail(items), added(inner))
             ELSE IF is_file(PathOf(item))
             THEN ItemLoop(Tail(items),
                     added([st EXCEPT !.new_tasks =
                              Append(@, [type |-> "file", path |-> item])]))
             ELSE ItemLoop(Tail(items), added(st))

discover_task_metadata(additional_data) ==
    ItemLoop(additional_data,
             [new_tasks |-> <<>>, to_remove |-> {}, raised |-> FALSE])

\* ------------------------------------------------------------------------
\* Offending path rules
\* ------------------------------------------------------------------------
DsStoreChecker(path) == fsName[path] # DS_STORE

ThumbsDbChecker(path) == fsName[path] # THUMBS_DB

\* str.startswith
startswith(name, prefix) ==
    /\ Len(name) >= Len(prefix)
    /\ SubSeq(name, 1, Len(prefix)) = prefix

DotUnderScoreChecker(path) == ~ startswith(fsName[path], <<".", "_">>)

\* mutant: the rule does not look at the kind of the entry
CaptureOneChecker_any_kind(path) == fsName[path] # CAPTURE_ONE

CaptureOneChecker(path) ==
    IF ~ is_dir(path) THEN TRUE
    ELSE fsName[path] # CAPTURE_ONE

is_valid(checker, path) ==
    CASE checker = "CaptureOneChecker" -> CaptureOneChecker(path)
      [] checker = "DotUnderScoreChecker" -> DotUnderScoreChecker(path)
      [] checker = "DsStoreChecker" -> DsStoreChecker(path)
      [] checker = "ThumbsDbChecker" -> ThumbsDbChecker(path)

\* OffendingPathDecider.is_offending
is_offending(chk, path) ==
    \E i \in 1..Len(chk) : ~ is_valid(chk[i], path)

\* FindOffendingFiles.__init__: the checkers in the order they are added
FindOffendingFilesInit(args) ==
    (IF args.capture_one THEN <<"CaptureOneChecker">> ELSE <<>>)
    \o (IF args.dot_underscore THEN <<"DotUnderScoreChecker">> ELSE <<>>)
    \o (IF args.ds_store THEN <<"DsStoreChecker">> ELSE <<>>)
    \o (IF args.thumbs_db THEN <<"ThumbsDbChecker">> ELSE <<>>)

\* FilesystemItemLocator.locate: os.path.relpath of every listed path.  A
\* relative item is written as the entry it names (the root is ".").
locate(path) == get_contents_of_folder_for_removal(path)

RECURSIVE SelectOffending(_, _)
SelectOffending(items, chk) ==
    IF items = <<>> THEN <<>>
    ELSE (IF is_offending(chk, Head(items)) THEN <<Head(items)>> ELSE <<>>)
         \o SelectOffending(Tail(items), chk)

\* FindOffendingFiles.locate_results
locate_results(chk) == SelectOffending(locate(Root), chk)

UserArgs ==
    [include_subdirectories : BOOLEAN, capture_one : BOOLEAN,
     dot_underscore : BOOLEAN, ds_store : BOOLEAN, thumbs_db : BOOLEAN]

\* ------------------------------------------------------------------------
\* Medusa preingest: actions
\* ------------------------------------------------------------------------
PlainNames(n) == [i \in 0..(n - 1) |-> PLAIN_NAME]

\* The user selects Path: a directory tree of unremarkable names.
SelectPath ==
    /\ mpc = "idle"
    /\ \E n \in 1..MaxNodes :
       \E parent \in [0..(n - 1) -> 0..(n - 1)], kind \in [0..(n - 1) -> Kinds] :
          /\ IsTree(n, parent, kind)
          /\ fsParent' = parent
          /\ fsKind' = kind
          /\ fsName' = PlainNames(n)
    /\ \E f \in {"norm", "raw"} : pathForm' = f
    /\ mpc' = "selected"
    /\ UNCHANGED <<removal_order, user_args, checkers, located, to_remove, new_tasks,
                   subtasks>>
    /\ UNCHANGED notMedusa

\* The user selects Path: a smaller tree, with every choice of names.
SelectNamedPath ==
    /\ mpc = "idle"
    /\ \E n \in 1..MaxNamedNodes :
       \E parent \in [0..(n - 1) -> 0..(n - 1)], kind \in [0..(n - 1) -> Kinds],
          name \in [0..(n - 1) -> Names] :
          /\ IsTree(n, parent, kind)
          /\ name[Root] \in RootNames
          /\ fsParent' = parent
          /\ fsKind' = kind
          /\ fsName' = name
    /\ pathForm' = "norm"
    /\ mpc' = "selected"
    /\ UNCHANGED <<removal_order, user_args, checkers, located, to_remove, new_tasks,
                   subtasks>>
    /\ UNCHANGED notMedusa

\* list(get_contents_of_folder_for_removal(Path))
EnumerateForRemoval ==
    /\ mpc = "selected"
    /\ removal_order' = get_contents_of_folder_for_removal(Root)
    /\ mpc' = "enumerated"
    /\ UNCHANGED <<fsParent, fsKind, fsName, pathForm, user_args, checkers, located,
                   to_remove, new_tasks, subtasks>>
    /\ UNCHANGED notMedusa

\* initial_task + FindOffendingFiles.work
FindOffendingFiles ==
    /\ mpc = "selected"
    /\ \E args \in UserArgs :
          /\ user_args' = args
          /\ checkers' = FindOffendingFilesInit(args)
          /\ located' = locate_results(FindOffendingFilesInit(args))
    /\ mpc' = "located"
    /\ UNCHANGED <<fsParent, fsKind, fsName, pathForm, removal_order,
                   to_remove, new_tasks, subtasks>>
    /\ UNCHANGED notMedusa

RemoveLists ==
    UNION {[1..k -> Entries] : k \in 0..MaxRemove}

\* get_additional_info: the items the user confirmed, joined to Path
GetAdditionalInfo ==
    /\ mpc = "selected"
    /\ \E items \in RemoveLists :
          to_remove' = [i \in 1..Len(items) |->
                           os_path_join(pathForm, items[i])]
    /\ mpc' = "confirmed"
    /\ UNCHANGED <<fsParent, fsKind, fsName, pathForm, removal_order,
                   user_args, checkers, located, new_tasks, subtasks>>
    /\ UNCHANGED notMedusa

\* discover_task_metadata
DiscoverTaskMetadata ==
    /\ mpc = "confirmed"
    /\ LET r == discover_task_metadata(to_remove)
       IN  IF r.raised
           THEN /\ mpc' = "RuntimeError"
                /\ UNCHANGED new_tasks
           ELSE /\ mpc' = "discovered"
                /\ new_tasks' = r.new_tasks
    /\ UNCHANGED <<fsParent, fsKind, fsName, pathForm, removal_order,
                   user_args, checkers, located, to_remove, subtasks>>
    /\ UNCHANGED notMedusa

\* create_new_task, called by the host for the jobs in order
CreateNewTask ==
    /\ mpc = "discovered"
    /\ Len(subtasks) < Len(new_tasks)
    /\ LET job_args == new_tasks[Len(subtasks) + 1]
       IN  subtasks' = Append(subtasks,
              IF job_args.type = "file"
              THEN [task |-> "delete_file", path |-> job_args.path]
              ELSE [task |-> "delete_directory", path |-> job_args.path])
    /\ UNCHANGED <<fsParent, fsKind, fsName, pathForm, mpc, removal_order,
                   user_args, checkers, located, to_remove, new_tasks>>
    /\ UNCHANGED notMedusa

MedusaInit ==
    /\ fsParent = <<>>
    /\ fsKind = <<>>
    /\ fsName = <<>>
    /\ pathForm = "norm"
    /\ mpc = "idle"
    /\ removal_order = <<>>
    /\ user_args = [include_subdirectories |-> TRUE, capture_one |-> TRUE,
                    dot_underscore |-> TRUE, ds_store |-> TRUE,
                    thumbs_db |-> TRUE]
    /\ checkers = <<>>
    /\ located = <<>>
    /\ to_remove = <<>>
    /\ new_tasks = <<>>
    /\ subtasks = <<>>

\* ------------------------------------------------------------------------
\* Checksum creation: paths
\*   A directory is a number: 0 is user_args["Input"], p >= 1 is its
\*   subdirectory p; strings compare as these numbers do.  A file is
\*   [dir, name]; a path relative to a directory is [sub, name] with sub = 0
\*   for a file directly in that directory.
\* ------------------------------------------------------------------------
Input == 0

DEFAULT_CHECKSUM_FILE_NAME == "checksum.md5"

Hashes == {"d41d", "9e10"}

\* file names, in the order os.walk lists them
FileNames == {1, 2}

FileSlots == [dir : 0..MaxPackages, name : FileNames]

\* os.path.join(directory, relative path)
join_file(base, rel) ==
    [dir |-> IF rel.sub = 0 THEN base ELSE rel.sub, name |-> rel.name]

\* os.path.relpath(file, directory)
relpath(file, base) ==
    [sub |-> IF file.dir = base THEN 0 ELSE file.dir, name |-> file.name]

\* os.path.normpath(os.path.join(package_root, DEFAULT_CHECKSUM_FILE_NAME))
report_path(package_root) ==
    [dir |-> package_root, name |-> DEFAULT_CHECKSUM_FILE_NAME]

\* os.walk(package_root): the files of the directory, then those of its
\* subdirectories
RECURSIVE walk_files(_)
walk_files(S) ==
    IF S = {} THEN <<>>
    ELSE LET f == CHOOSE x \in S : \A y \in S :
                      \/ x.dir < y.dir
                      \/ x.dir = y.dir /\ x.name <= y.name
         IN  <<f>> \o walk_files(S \ {f})

\* mutant: only the files directly in the directory
locate_files_top_only(package_root) ==
    walk_files({f \in ck_files : f.dir = package_root})

locate_files(package_root) ==
    walk_files({f \in ck_files : package_root = Input \/ f.dir = package_root})

\* ------------------------------------------------------------------------
\* discover_task_metadata of the two checksum workflows
\* ------------------------------------------------------------------------
RECURSIVE jobs_for(_, _)
jobs_for(file_paths, package_root) ==
    IF file_paths = <<>> THEN <<>>
    ELSE <<[source_path |-> package_root,
            filename |-> relpath(Head(file_paths), package_root),
            save_to_filename |-> report_path(package_root)]>>
         \o jobs_for(Tail(file_paths), package_root)

single_discover_task_metadata == jobs_for(locate_files(Input), Input)

RECURSIVE multiple_scan(_)
multiple_scan(sub_dirs) ==
    IF sub_dirs = <<>> THEN <<>>
    ELSE jobs_for(locate_files(Head(sub_dirs)), Head(sub_dirs))
         \o multiple_scan(Tail(sub_dirs))

multiple_discover_task_metadata == multiple_scan(SortedSeq(ck_dirs))

\* ------------------------------------------------------------------------
\* CreateChecksumWorkflow.sort_results
\* ------------------------------------------------------------------------
sort_func(value) == value.checksum_file.dir

\* sorted(results, key=sort_func): stable
RECURSIVE insert_sorted(_, _)
insert_sorted(seq, x) ==
    IF seq = <<>> THEN <<x>>
    ELSE IF sort_func(Head(seq)) <= sort_func(x)
         THEN <<Head(seq)>> \o insert_sorted(Tail(seq), x)
         ELSE <<x>> \o seq

RECURSIVE sorted(_)
sorted(results) ==
    IF results = <<>> THEN <<>>
    ELSE insert_sorted(sorted(SubSeq(results, 1, Len(results) - 1)),
                       results[Len(results)])

\* itertools.groupby: runs of adjacent items with the same key
RECURSIVE groupby(_)
groupby(seq) ==
    IF seq = <<>> THEN <<>>
    ELSE LET rest == groupby(Tail(seq))
         IN  IF rest # <<>> /\ rest[1].key = Head(seq).checksum_file
             THEN <<[key |-> rest[1].key,
                     value |-> <<Head(seq)>> \o rest[1].value]>>
                  \o Tail(rest)
             ELSE <<[key |-> Head(seq).checksum_file,
                     value |-> <<Head(seq)>>]>> \o rest

\* a dict is the sequence of its [key, value] items in insertion order
dict_keys(d) == {d[i].key : i \in 1..Len(d)}

\* mutant: the list of a key is replaced, not extended
dict_replace(d, key, result_data) ==
    IF key \in dict_keys(d)
    THEN [i \in 1..Len(d) |->
            IF d[i].key = key
            THEN [key |-> key, value |-> <<result_data>>]
            ELSE d[i]]
    ELSE Append(d, [key |-> key, value |-> <<result_data>>])

\* new_results[key].append(result_data) on a defaultdict(list)
dict_append(d, key, result_data) ==
    IF key \in dict_keys(d)
    THEN [i \in 1..Len(d) |->
            IF d[i].key = key
            THEN [key |-> key, value |-> Append(d[i].value, result_data)]
            ELSE d[i]]
    ELSE Append(d, [key |-> key, value |-> <<result_data>>])

RECURSIVE append_all(_, _, _)
append_all(d, key, value) ==
    IF value = <<>> THEN d
    ELSE append_all(dict_append(d, key, Head(value)), key, Tail(value))

RECURSIVE collect_groups(_, _)
collect_groups(groups, new_results) ==
    IF groups = <<>> THEN new_results
    ELSE collect_groups(Tail(groups),
            append_all(new_results, Head(groups).key, Head(groups).value))

\* mutant: groupby on the unsorted results, one group per run
sort_results_unsorted(results) == groupby(results)

sort_results(results) == collect_groups(groupby(sorted(results)), <<>>)

\* ------------------------------------------------------------------------
\* Checksum creation: actions
\* ------------------------------------------------------------------------
\* The user starts one of the two workflows on an Input directory.
SelectInput ==
    /\ ck_pc = "idle"
    /\ \E w \in {"single", "multiple"} : ck_workflow' = w
    /\ \E files \in SUBSET FileSlots, dirs \in SUBSET (1..MaxPackages) :
          /\ Cardinality(files) <= MaxFiles
          /\ \A f \in files : f.dir # Input => f.dir \in dirs
          /\ ck_files' = files
          /\ ck_dirs' = dirs
          /\ \E md5 \in [files -> Hashes] : ck_md5' = md5
    /\ ck_pc' = "selected"
    /\ UNCHANGED <<ck_jobs, ck_tasks, ck_results, ck_sorted, ck_report_tasks,
                   ck_written>>
    /\ UNCHANGED notChecksum

ChecksumDiscover ==
    /\ ck_pc = "selected"
    /\ ck_jobs' = IF ck_workflow = "single"
                  THEN single_discover_task_metadata
                  ELSE multiple_discover_task_metadata
    /\ ck_pc' = "discovered"
    /\ UNCHANGED <<ck_workflow, ck_dirs, ck_files, ck_md5, ck_tasks,
                   ck_results, ck_sorted, ck_report_tasks, ck_written>>
    /\ UNCHANGED notChecksum

\* CreateChecksumWorkflow.create_new_task, for the jobs in order
ChecksumCreateNewTask ==
    /\ ck_pc = "discovered"
    /\ Len(ck_tasks) < Len(ck_jobs)
    /\ LET job_args == ck_jobs[Len(ck_tasks) + 1]
       IN  ck_tasks' = Append(ck_tasks,
              [source_path |-> job_args.source_path,
               filename |-> job_args.filename,
               checksum_report |-> job_args.save_to_filename,
               done |-> FALSE])
    /\ UNCHANGED <<ck_pc, ck_workflow, ck_dirs, ck_files, ck_md5, ck_jobs,
                   ck_results, ck_sorted, ck_report_tasks, ck_written>>
    /\ UNCHANGED notChecksum

\* MakeChecksumTask.work; the host runs the subtasks in any order
MakeChecksumTaskWork ==
    /\ ck_pc = "discovered"
    /\ Len(ck_tasks) = Len(ck_jobs)
    /\ \E i \in 1..Len(ck_tasks) :
          /\ ~ ck_tasks[i].done
          /\ LET item_path == ck_tasks[i].source_path
                 item_file_name == ck_tasks[i].filename
                 file_to_calculate == join_file(item_path, item_file_name)
             IN  ck_results' = Append(ck_results,
                    [source_filename |-> item_file_name,
                     checksum_hash |-> ck_md5[file_to_calculate],
                     checksum_file |-> ck_tasks[i].checksum_report])
          /\ ck_tasks' = [ck_tasks EXCEPT ![i].done = TRUE]
    /\ UNCHANGED <<ck_pc, ck_workflow, ck_dirs, ck_files, ck_md5, ck_jobs,
                   ck_sorted, ck_report_tasks, ck_written>>
    /\ UNCHANGED notChecksum

\* CreateChecksumWorkflow.completion_task
CompletionTask ==
    /\ ck_pc = "discovered"
    /\ Len(ck_tasks) = Len(ck_jobs)
    /\ \A i \in 1..Len(ck_tasks) : ck_tasks[i].done
    /\ LET sorted_results == sort_results(ck_results)
       IN  /\ ck_sorted' = sorted_results
           /\ ck_report_tasks' =
                 [i \in 1..Len(sorted_results) |->
                     [output_filename |-> sorted_results[i].key,
                      checksum_calculations |-> sorted_results[i].value,
                      done |-> FALSE]]
    /\ ck_pc' = "completion"
    /\ UNCHANGED <<ck_workflow, ck_dirs, ck_files, ck_md5, ck_jobs, ck_tasks,
                   ck_results, ck_written>>
    /\ UNCHANGED notChecksum

\* HathiChecksumReport.add_entry for every calculation, in order
RECURSIVE report_entries(_)
report_entries(checksum_calculations) ==
    IF checksum_calculations = <<>> THEN <<>>
    ELSE <<[filename |-> Head(checksum_calculations).source_filename,
            hash_value |-> Head(checksum_calculations).checksum_hash]>>
         \o report_entries(Tail(checksum_calculations))

\* MakeCheckSumReportTask.work
MakeCheckSumReportTaskWork ==
    /\ ck_pc = "completion"
    /\ \E i \in 1..Len(ck_report_tasks) :
          /\ ~ ck_report_tasks[i].done
          /\ ck_written' =
                {w \in ck_written :
                    w.path # ck_report_tasks[i].output_filename}
                \cup {[path |-> ck_report_tasks[i].output_filename,
                       entries |-> report_entries(
                           ck_report_tasks[i].checksum_calculations)]}
          /\ ck_report_tasks' = [ck_report_tasks EXCEPT ![i].done = TRUE]
    /\ UNCHANGED <<ck_pc, ck_workflow, ck_dirs, ck_files, ck_md5, ck_jobs,
                   ck_tasks, ck_results, ck_sorted>>
    /\ UNCHANGED notChecksum

ChecksumInit ==
    /\ ck_pc = "idle"
    /\ ck_workflow = "single"
    /\ ck_dirs = {}
    /\ ck_files = {}
    /\ ck_md5 = <<>>
    /\ ck_jobs = <<>>
    /\ ck_tasks = <<>>
    /\ ck_results = <<>>
    /\ ck_sorted = <<>>
    /\ ck_report_tasks = <<>>
    /\ ck_written = {}


\* ------------------------------------------------------------------------
\* Checksum verification: hash strings and comparison
\* ------------------------------------------------------------------------
HashChars == {"a", "A", "b"}

HashStrings == UNION {[1..k -> HashChars] : k \in 0..MaxHashLen}

lower_char(c) ==
    CASE c = "A" -> "a"
      [] c = "B" -> "b"
      [] OTHER -> c

\* str.lower
lower(str) == [i \in 1..Len(str) |-> lower_char(str[i])]

CaseSensitiveComparison_compare(a, b) == a = b

\* mutant: only the first argument is lower-cased
compare_lower_first_only(a, b) == lower(a) = b

CaseInsensitiveComparison_compare(a, b) == lower(a) = lower(b)

\* the comparison of ValidateChecksumTask.work and ChecksumTask.work
ValidHash(actual_md5, expected) ==
    IF CaseSensitiveComparison_compare(actual_md5, expected) THEN TRUE
    ELSE IF CaseInsensitiveComparison_compare(actual_md5, expected) THEN TRUE
    ELSE FALSE

\* mutant: a hash in another letter case is a mismatch
ValidateChecksumTask_work_case_sensitive(task, actual_md5) ==
    [filename |-> task.filename,
     path |-> task.path,
     checksum_report_file |-> task.source_report,
     valid |-> CaseSensitiveComparison_compare(actual_md5,
                                               task.expected_hash)]

\* ValidateChecksumTask.work: the result it sets
ValidateChecksumTask_work(task, actual_md5) ==
    [filename |-> task.filename,
     path |-> task.path,
     checksum_report_file |-> task.source_report,
     valid |-> ValidHash(actual_md5, task.expected_hash)]

\* ChecksumTask.work: the result it sets
ChecksumTask_work(kwarg, actual_md5) ==
    [filename |-> kwarg.filename,
     path |-> kwarg.path,
     checksum_report_file |-> kwarg.source_report,
     valid |-> ValidHash(actual_md5, kwarg.expected_hash)]

\* ------------------------------------------------------------------------
\* Checksum verification: actions
\* ------------------------------------------------------------------------
\* compare(a, b) of both comparison methods on the same arguments
Compare ==
    /\ vf_pc = "idle"
    /\ \E a, b \in HashStrings :
          /\ cmp_args' = <<a, b>>
          /\ cmp_result' =
                [sensitive |-> CaseSensitiveComparison_compare(a, b),
                 insensitive |-> CaseInsensitiveComparison_compare(a, b)]
    /\ vf_pc' = "compared"
    /\ UNCHANGED <<vf_workflow, vf_jobs, vf_tasks, vf_results, vf_md5>>
    /\ UNCHANGED notVerify

\* hashes of the files of a verified batch: one of each letter
BatchHashes == {<<"a">>, <<"A">>, <<"b">>}

\* a file on disk: readable with an md5, or not readable
DiskFiles ==
    [readable : {TRUE}, md5 : BatchHashes]
    \cup {[readable |-> FALSE, md5 |-> <<>>]}

\* discover_task_metadata: one job per entry of the checksum report; the
\* files the entries name are on disk, with some content or unreadable
VerifyDiscover ==
    /\ vf_pc = "idle"
    /\ \E w \in {"single", "multiple"} : vf_workflow' = w
    /\ \E n \in 0..MaxBatch :
       \E expected \in [1..n -> BatchHashes],
          md5 \in [1..n -> DiskFiles] :
          /\ vf_jobs' = [i \in 1..n |->
                            [expected_hash |-> expected[i],
                             filename |-> i,
                             path |-> Input,
                             source_report |-> report_path(Input)]]
          /\ vf_md5' = md5
    /\ vf_pc' = "discovered"
    /\ UNCHANGED <<vf_tasks, vf_results, cmp_args, cmp_result>>
    /\ UNCHANGED notVerify

\* create_new_task, for the jobs in order
VerifyCreateNewTask ==
    /\ vf_pc = "discovered"
    /\ Len(vf_tasks) < Len(vf_jobs)
    /\ vf_tasks' = Append(vf_tasks, "created")
    /\ UNCHANGED <<vf_pc, vf_workflow, vf_jobs, vf_results, vf_md5,
                   cmp_args, cmp_result>>
    /\ UNCHANGED notVerify

\* hathi_validate.process.calculate_md5 of the file of job i
calculate_md5(i) == vf_md5[i].md5

\* work() of one subtask; the host runs the subtasks in any order
VerifyTaskWork ==
    /\ vf_pc = "discovered"
    /\ Len(vf_tasks) = Len(vf_jobs)
    /\ \E i \in 1..Len(vf_tasks) :
          /\ vf_tasks[i] = "created"
          /\ vf_md5[i].readable
          /\ vf_results' = Append(vf_results,
                IF vf_workflow = "multiple"
                THEN ValidateChecksumTask_work(vf_jobs[i], calculate_md5(i))
                ELSE ChecksumTask_work(vf_jobs[i], calculate_md5(i)))
          /\ vf_tasks' = [vf_tasks EXCEPT ![i] = "returned True"]
    /\ UNCHANGED <<vf_pc, vf_workflow, vf_jobs, vf_md5, cmp_args, cmp_result>>
    /\ UNCHANGED notVerify

\* work() of one subtask whose file cannot be read: calculate_md5 raises
VerifyTaskWorkUnreadable ==
    /\ vf_pc = "discovered"
    /\ Len(vf_tasks) = Len(vf_jobs)
    /\ \E i \in 1..Len(vf_tasks) :
          /\ vf_tasks[i] = "created"
          /\ ~ vf_md5[i].readable
          /\ vf_tasks' = [vf_tasks EXCEPT ![i] = "raised OSError"]
    /\ UNCHANGED <<vf_pc, vf_workflow, vf_jobs, vf_results, vf_md5,
                   cmp_args, cmp_result>>
    /\ UNCHANGED notVerify

VerifyInit ==
    /\ vf_pc = "idle"
    /\ vf_workflow = "single"
    /\ vf_jobs = <<>>
    /\ vf_tasks = <<>>
    /\ vf_results = <<>>
    /\ vf_md5 = <<>>
    /\ cmp_args = <<<<>>, <<>>>>
    /\ cmp_result = [sensitive |-> TRUE, insensitive |-> TRUE]

\* ------------------------------------------------------------------------
\* Checksum verification: generate_report
\* ------------------------------------------------------------------------
\* results of validation tasks: the data ValidateChecksumTask.work and
\* ChecksumTask.work set, for files named in one of two checksum reports
ValidationData ==
    [filename : 1..2, path : 1..2,
     checksum_report_file : {report_path(1), report_path(2)},
     valid : BOOLEAN]

\* the results the host hands to generate_report.  The multiple workflow
\* also gets the results of its initial ReadChecksumReportTask tasks (a
\* list of entries each).
ResultsGiven(workflow) ==
    IF workflow = "multiple"
    THEN [source : {"ValidateChecksumTask"},
          data : {d \in ValidationData : d.path = d.checksum_report_file.dir}]
         \cup {[source |-> "ReadChecksumReportTask", data |-> <<>>]}
    ELSE [source : {"ChecksumTask"},
          data : {d \in ValidationData : d.path = d.checksum_report_file.dir}]

\* sorted(results, key=lambda it: it["checksum_report_file"]): stable; the
\* report files of the model compare as their directories do
RECURSIVE verify_insert_sorted(_, _)
verify_insert_sorted(seq, x) ==
    IF seq = <<>> THEN <<x>>
    ELSE IF Head(seq).checksum_report_file.dir <= x.checksum_report_file.dir
         THEN <<Head(seq)>> \o verify_insert_sorted(Tail(seq), x)
         ELSE <<x>> \o seq

RECURSIVE verify_sorted(_)
verify_sorted(results) ==
    IF results = <<>> THEN <<>>
    ELSE verify_insert_sorted(
            verify_sorted(SubSeq(results, 1, Len(results) - 1)),
            results[Len(results)])

\* itertools.groupby(sorted_results, key=checksum_report_file)
RECURSIVE verify_groupby(_)
verify_groupby(seq) ==
    IF seq = <<>> THEN <<>>
    ELSE LET rest == verify_groupby(Tail(seq))
         IN  IF rest # <<>> /\ rest[1].key = Head(seq).checksum_report_file
             THEN <<[key |-> rest[1].key,
                     value |-> <<Head(seq)>> \o rest[1].value]>>
                  \o Tail(rest)
             ELSE <<[key |-> Head(seq).checksum_report_file,
                     value |-> <<Head(seq)>>]>> \o rest

\* ChecksumWorkflow._sort_results / VerifyChecksumBatchSingleWorkflow
\* .sort_results
verify_sort_results(results) ==
    collect_groups(verify_groupby(verify_sorted(results)), <<>>)

not_valid(it) == ~it.valid

\* mutant: a report file is listed with all its results
find_failed_lists_all(new_results) ==
    IF \E i \in 1..Len(new_results) :
          SelectSeq(new_results[i].value, not_valid) # <<>>
    THEN new_results
    ELSE <<>>

\* find_failed: the failed results of each report file; a file without a
\* failed result gets no key
RECURSIVE find_failed(_)
find_failed(new_results) ==
    IF new_results = <<>> THEN <<>>
    ELSE LET failed == SelectSeq(Head(new_results).value, not_valid)
         IN  (IF failed = <<>> THEN <<>>
              ELSE <<[key |-> Head(new_results).key, value |-> failed]>>)
             \o find_failed(Tail(new_results))

\* the report: 'Success' with 'All <count> passed checksum validation.', or
\* one message per report file: its name, '<failed> files failed checksum
\* validation.' and a bullet per failed file name
report_of(results_with_failures, count) ==
    IF Len(results_with_failures) > 0
    THEN [success |-> FALSE, count |-> 0,
          messages |->
             [i \in 1..Len(results_with_failures) |->
                [checksum_file |-> results_with_failures[i].key,
                 failed |-> Len(results_with_failures[i].value),
                 bullets |->
                    [k \in 1..Len(results_with_failures[i].value) |->
                        results_with_failures[i].value[k].filename]]]]
    ELSE [success |-> TRUE, count |-> count, messages |-> <<>>]

validation_result_filter(task_result) ==
    task_result.source = "ValidateChecksumTask"

result_data(results) == [i \in 1..Len(results) |-> results[i].data]

\* ChecksumWorkflow.generate_report
ChecksumWorkflow_generate_report(results) ==
    report_of(
        find_failed(verify_sort_results(
            result_data(SelectSeq(results, validation_result_filter)))),
        Len(results))

\* VerifyChecksumBatchSingleWorkflow.generate_report
VerifyChecksumBatchSingleWorkflow_generate_report(results) ==
    report_of(find_failed(verify_sort_results(result_data(results))),
              Len(result_data(results)))

\* the tasks of a run have ended with these results
ReportResults ==
    /\ rp_pc = "idle"
    /\ \E w \in {"single", "multiple"} :
          /\ rp_workflow' = w
          /\ \E n \in 0..MaxResults :
                rp_results' \in [1..n -> ResultsGiven(w)]
    /\ rp_pc' = "finished"
    /\ UNCHANGED rp_report
    /\ UNCHANGED notReport

\* generate_report(results, user_args)
GenerateReport ==
    /\ rp_pc = "finished"
    /\ rp_report' =
          IF rp_workflow = "multiple"
          THEN ChecksumWorkflow_generate_report(rp_results)
          ELSE VerifyChecksumBatchSingleWorkflow_generate_report(rp_results)
    /\ rp_pc' = "reported"
    /\ UNCHANGED <<rp_workflow, rp_results>>
    /\ UNCHANGED notReport

ReportInit ==
    /\ rp_pc = "idle"
    /\ rp_workflow = "single"
    /\ rp_results = <<>>
    /\ rp_report = [success |-> TRUE, count |-> 0, messages |-> <<>>]

\* ------------------------------------------------------------------------
\* MARC retrieval
\* ------------------------------------------------------------------------
SUPPORTED_IDENTIFIERS == {"MMS ID", "Bibid"}

\* what the getmarc server does with one GET request
Responses ==
    {"ok",               \* status 200, a MARC record
     "ok not xml",       \* status 200, text that is not XML
     "ok unencodable",   \* status 200, text open(..., "utf-8") cannot encode
     "http error",       \* an HTTP error status
     "connection error", \* requests.ConnectionError
     "read timeout"}     \* requests.ReadTimeout

NoException == [type |-> "none", message |-> "", identifier |-> 0]

\* AbsMarcFileStrategy.download_record: one requests.get(url), then
\* raise_for_status; `requests` are the GET requests it issued
download_record(url, response) ==
    CASE response = "connection error" ->
            [raised |-> "ConnectionError", text |-> "", requests |-> <<url>>]
      [] response = "read timeout" ->
            [raised |-> "ReadTimeout", text |-> "", requests |-> <<url>>]
      [] response = "http error" ->
            [raised |-> "HTTPError", text |-> "", requests |-> <<url>>]
      [] OTHER ->
            [raised |-> "none", text |-> response, requests |-> <<url>>]

record_url(server_url, parameter, ident) ==
    [server |-> server_url, path |-> "/api/record",
     query |-> parameter, ident |-> ident]

\* the URL GetMarcBibId.get_record / GetMarcMMSID.get_record ask for
get_record_url(identifier_type, server_url, ident) ==
    IF identifier_type = "Bibid"
    THEN record_url(server_url, "bib_id", ident)
    ELSE record_url(server_url, "mms_id", ident)

\* mutant: the HTTP error is not turned into RecordNotFound
get_record_http_error_unhandled(identifier_type, server_url, ident, response) ==
    download_record(get_record_url(identifier_type, server_url, ident),
                    response)

\* mutant: a failed download is tried a second time
get_record_retries(identifier_type, server_url, ident, response) ==
    LET url == get_record_url(identifier_type, server_url, ident)
        r == download_record(url, response)
        again == download_record(url, response)
    IN  IF r.raised = "none"
        THEN r
        ELSE [raised |-> IF again.raised = "HTTPError"
                         THEN "RecordNotFound" ELSE again.raised,
              text |-> again.text,
              requests |-> r.requests \o again.requests]

\* GetMarcBibId.get_record / GetMarcMMSID.get_record
get_record(identifier_type, server_url, ident, response) ==
    LET r == download_record(
                get_record_url(identifier_type, server_url, ident), response)
    IN  IF r.raised = "HTTPError"
        THEN [raised |-> "RecordNotFound", text |-> "",
              requests |-> r.requests]
        ELSE r

\* mutant: a failed fetch is recorded in the result and work returns
MarcGeneratorTask_work_captures(task, response) ==
    LET r == get_record(task.identifier_type, task.server_url,
                        task.identifier, response)
    IN  IF r.raised = "none"
        THEN [status |-> "returned True",
              exception |-> NoException,
              result |-> <<[success |-> TRUE,
                           identifier |-> task.identifier,
                           output |-> task.output_name]>>,
              written |-> "record",
              requests |-> r.requests]
        ELSE [status |-> "returned False",
              exception |-> NoException,
              result |-> <<[success |-> FALSE,
                           identifier |-> task.identifier,
                           output |-> r.raised]>>,
              written |-> "nothing",
              requests |-> r.requests]

\* MarcGeneratorTask.work: how it ends, the result it sets (a sequence of
\* no or one result) and what it writes to output_name
MarcGeneratorTask_work(task, response) ==
    LET r == get_record(task.identifier_type, task.server_url,
                        task.identifier, response)
    IN  CASE r.raised = "none" /\ r.text = "ok" ->
                [status |-> "returned True",
                 exception |-> NoException,
                 result |-> <<[success |-> TRUE,
                              identifier |-> task.identifier,
                              output |-> task.output_name]>>,
                 written |-> "record",
                 requests |-> r.requests]
          [] r.raised = "none" /\ r.text = "ok not xml" ->
                \* minidom.parseString raises, no handler
                [status |-> "raised",
                 exception |-> [type |-> "ExpatError", message |-> "",
                                identifier |-> 0],
                 result |-> <<>>,
                 written |-> "nothing",
                 requests |-> r.requests]
          [] r.raised = "none" /\ r.text = "ok unencodable" ->
                \* write_file: the file is opened, the write raises
                [status |-> "raised",
                 exception |-> [type |-> "SpeedwagonException",
                                message |-> "", identifier |-> 0],
                 result |-> <<>>,
                 written |-> "empty file",
                 requests |-> r.requests]
          [] r.raised = "RecordNotFound" ->
                [status |-> "raised",
                 exception |->
                    [type |-> "JobCancelled",
                     message |-> "Unable to locate record with identifier",
                     identifier |-> task.identifier],
                 result |-> <<>>,
                 written |-> "nothing",
                 requests |-> r.requests]
          [] r.raised \in {"ConnectionError", "HTTPError"} ->
                [status |-> "raised",
                 exception |->
                    [type |-> "SpeedwagonException",
                     message |-> "Trouble connecting to server getmarc",
                     identifier |-> 0],
                 result |-> <<[success |-> FALSE,
                              identifier |-> task.identifier,
                              output |-> r.raised]>>,
                 written |-> "nothing",
                 requests |-> r.requests]
          [] OTHER ->
                \* any other exception of requests passes through
                [status |-> "raised",
                 exception |-> [type |-> r.raised, message |-> "",
                                identifier |-> 0],
                 result |-> <<>>,
                 written |-> "nothing",
                 requests |-> r.requests]

\* ------------------------------------------------------------------------
\* MARC retrieval: actions
\* ------------------------------------------------------------------------
\* create_new_task for the records of a job: one MarcGeneratorTask each
MarcCreateTasks ==
    /\ mk_pc = "idle"
    /\ \E n \in 1..MaxRecords, identifier_type \in SUPPORTED_IDENTIFIERS :
          mk_tasks' = [i \in 1..n |->
                          [identifier |-> i,
                           identifier_type |-> identifier_type,
                           output_name |-> [dir |-> i, name |-> "MARC.XML"],
                           server_url |-> "server",
                           response |-> "none",
                           status |-> "created",
                           exception |-> NoException,
                           result |-> <<>>]]
    /\ mk_pc' = "running"
    /\ UNCHANGED <<mk_http, mk_files>>
    /\ UNCHANGED notMarc

\* MarcGeneratorTask.work of one subtask, the server answering `response`
MarcGeneratorTaskWork ==
    /\ mk_pc = "running"
    /\ \E i \in 1..Len(mk_tasks), response \in Responses :
          /\ mk_tasks[i].status = "created"
          /\ LET task == mk_tasks[i]
                 end == MarcGeneratorTask_work(task, response)
             IN  /\ mk_tasks' = [mk_tasks EXCEPT
                        ![i].response = response,
                        ![i].status = end.status,
                        ![i].exception = end.exception,
                        ![i].result = end.result]
                 /\ mk_http' = mk_http \o end.requests
                 /\ mk_files' =
                        IF end.written = "nothing" THEN mk_files
                        ELSE {f \in mk_files : f.path # task.output_name}
                             \cup {[path |-> task.output_name,
                                    content |-> end.written]}
    /\ UNCHANGED mk_pc
    /\ UNCHANGED notMarc

MarcInit ==
    /\ mk_pc = "idle"
    /\ mk_tasks = <<>>
    /\ mk_http = <<>>
    /\ mk_files = {}

\* ------------------------------------------------------------------------
\* MARC retrieval: job discovery
\* ------------------------------------------------------------------------
Digits == {"0", "1", "2", "3", "4", "5", "6", "7", "8", "9"}

Letters == {"a", "v"}

MMS_NAME == <<"9", "9", "0", "5", "8", "9", "9">>

\* names of the entries of Input, as sequences of characters
FolderNames ==
    {<<"1">>, <<"1", "0">>, <<"0", "1">>, <<"a">>, <<"1", "a">>,
     <<"1", "v">>, <<"a", "v">>, MMS_NAME}

\* the entries os.scandir(Input) can yield
DirEntries == [name : FolderNames, is_dir : BOOLEAN]

\* os.DirEntry.path
entry_path(name) == [dir |-> "Input", name |-> name]

\* "c" in name
contains(name, c) == \E i \in 1..Len(name) : name[i] = c

\* eval(name) of a name of digits and letters: the type of the value, or the
\* exception.  A decimal literal is an int; a literal with a leading zero
\* and a non-zero digit, or a digit followed by a letter, is no expression;
\* an identifier is a name that is not defined.
eval(name) ==
    IF \A i \in 1..Len(name) : name[i] \in Digits
    THEN IF /\ Len(name) > 1
            /\ name[1] = "0"
            /\ \E i \in 1..Len(name) : name[i] # "0"
         THEN "SyntaxError"
         ELSE "int"
    ELSE IF name[1] \in Letters
         THEN "NameError"
         ELSE "SyntaxError"

\* GenerateMarcXMLFilesWorkflow.filter_bib_id_folders
filter_bib_id_folders(item) ==
    IF ~ item.is_dir THEN [keep |-> FALSE, raised |-> "none"]
    ELSE IF contains(item.name, "v") THEN [keep |-> TRUE, raised |-> "none"]
    ELSE IF startswith(item.name, <<"0">>)
         THEN [keep |-> FALSE, raised |-> "BadNamingError"]
    ELSE CASE eval(item.name) = "int" -> [keep |-> TRUE, raised |-> "none"]
           [] eval(item.name) = "NameError" ->
                [keep |-> FALSE, raised |-> "BadNamingError"]
           [] OTHER ->
                \* only NameError is caught
                [keep |-> FALSE, raised |-> eval(item.name)]

\* the list comprehension over filter(filter_bib_id_folders, os.scandir())
RECURSIVE ScanLoop(_, _, _, _, _)
ScanLoop(scan, k, jobs, server_url, args) ==
    IF k > Len(scan)
    THEN [raised |-> "none", path |-> <<>>, jobs |-> jobs, scanned |-> k - 1]
    ELSE LET folder == scan[k]
             f == filter_bib_id_folders(folder)
         IN  IF f.raised # "none"
             THEN [raised |-> f.raised,
                   path |-> <<entry_path(folder.name)>>,
                   jobs |-> <<>>,
                   scanned |-> k]
             ELSE ScanLoop(scan, k + 1,
                    IF f.keep
                    THEN Append(jobs,
                           [directory |-> [value |-> folder.name,
                                           type |-> args.identifier_type],
                            enhancements |-> [f955 |-> args.add_955,
                                              f035 |-> args.add_035],
                            api_server |-> server_url,
                            path |-> entry_path(folder.name)])
                    ELSE jobs,
                    server_url, args)

\* mutant: the server url is not looked at before the scan
marc_discover_unchecked(config, scan, args) ==
    LET r == ScanLoop(scan, 1, <<>>, config, args)
    IN  [raised |-> "none", message |-> "", path |-> <<>>,
         jobs |-> r.jobs, scanned |-> r.scanned]

\* GenerateMarcXMLFilesWorkflow.discover_task_metadata
marc_discover_task_metadata(config, scan, args) ==
    IF config = <<>>
    THEN [raised |-> "MissingConfiguration",
          message |-> "Getmarc server url",
          path |-> <<>>, jobs |-> <<>>, scanned |-> 0]
    ELSE LET r == ScanLoop(scan, 1, <<>>, config[1], args)
         IN  CASE r.raised = "BadNamingError" ->
                    [raised |-> "JobCancelled",
                     message |-> "Unable to locate marc record due to invalid naming convention.",
                     path |-> r.path, jobs |-> <<>>, scanned |-> r.scanned]
               [] r.raised # "none" ->
                    [raised |-> r.raised, message |-> "",
                     path |-> <<>>, jobs |-> <<>>, scanned |-> r.scanned]
               [] r.jobs = <<>> ->
                    [raised |-> "JobCancelled",
                     message |-> "No directories containing packages located inside of",
                     path |-> <<>>, jobs |-> <<>>, scanned |-> r.scanned]
               [] OTHER ->
                    [raised |-> "none", message |-> "",
                     path |-> <<>>, jobs |-> r.jobs, scanned |-> r.scanned]

\* the longest prefix of digits: what [0-9]* matches at the start
RECURSIVE DigitPrefix(_)
DigitPrefix(name) ==
    IF name = <<>> \/ Head(name) \notin Digits THEN <<>>
    ELSE <<Head(name)>> \o DigitPrefix(Tail(name))

\* BIBID_PATTERN.match(name): group "identifier", always a match
BIBID_PATTERN_match(name) == <<DigitPrefix(name)>>

\* MMSID_PATTERN.match(name): group "identifier" of the greedy match of
\* 99[0-9]*(122)?05899, or <<>> when there is no match
MMSID_PATTERN_match(name) ==
    LET run == DigitPrefix(name)
        ends == {k \in 7..Len(run) :
                    /\ SubSeq(run, 1, 2) = <<"9", "9">>
                    /\ SubSeq(run, k - 4, k) = <<"0", "5", "8", "9", "9">>}
    IN  IF ends = {} THEN <<>>
        ELSE <<SubSeq(run, 1, CHOOSE k \in ends : \A m \in ends : m <= k)>>

\* GenerateMarcXMLFilesWorkflow._get_identifier_volume: the identifier
get_identifier_volume(job_args) ==
    LET match == IF job_args.directory.type = "MMS ID"
                 THEN MMSID_PATTERN_match(job_args.directory.value)
                 ELSE BIBID_PATTERN_match(job_args.directory.value)
    IN  IF match = <<>>
        THEN [raised |-> "SpeedwagonException", identifier |-> <<>>]
        ELSE [raised |-> "none", identifier |-> match[1]]

\* os.path.join(folder, "MARC.XML")
marc_file_of(path) == [dir |-> path.name, name |-> "MARC.XML"]

\* mutant: the enhancement tasks are added before the task that fetches
marc_create_new_task_enhances_first(job_args) ==
    LET id == get_identifier_volume(job_args)
        marc_file == marc_file_of(job_args.path)
        task(name, identifier, identifier_type, added_value, server_url) ==
            [task |-> name, identifier |-> identifier,
             identifier_type |-> identifier_type,
             added_value |-> added_value, server_url |-> server_url,
             xml_file |-> marc_file]
    IN  IF id.raised # "none"
        THEN [raised |-> id.raised, subtasks |-> <<>>]
        ELSE [raised |-> "none",
              subtasks |->
                (IF job_args.enhancements.f955
                 THEN <<task("MarcEnhancement955Task", <<>>, "",
                             job_args.directory.value, <<>>)>>
                 ELSE <<>>)
                \o (IF job_args.enhancements.f035
                    THEN <<task("MarcEnhancement035Task", <<>>, "", <<>>,
                                <<>>)>>
                    ELSE <<>>)
                \o <<task("MarcGeneratorTask", id.identifier,
                          job_args.directory.type, <<>>,
                          <<job_args.api_server>>)>>]

\* GenerateMarcXMLFilesWorkflow.create_new_task: the subtasks it adds
marc_create_new_task(job_args) ==
    LET id == get_identifier_volume(job_args)
        marc_file == marc_file_of(job_args.path)
    IN  IF id.raised # "none"
        THEN [raised |-> id.raised, subtasks |-> <<>>]
        ELSE [raised |-> "none",
              subtasks |->
                <<[task |-> "MarcGeneratorTask",
                   identifier |-> id.identifier,
                   identifier_type |-> job_args.directory.type,
                   added_value |-> <<>>,
                   server_url |-> <<job_args.api_server>>,
                   xml_file |-> marc_file]>>
                \o (IF job_args.enhancements.f955
                    THEN <<[task |-> "MarcEnhancement955Task",
                            identifier |-> <<>>,
                            identifier_type |-> "",
                            added_value |-> job_args.directory.value,
                            server_url |-> <<>>,
                            xml_file |-> marc_file]>>
                    ELSE <<>>)
                \o (IF job_args.enhancements.f035
                    THEN <<[task |-> "MarcEnhancement035Task",
                            identifier |-> <<>>,
                            identifier_type |-> "",
                            added_value |-> <<>>,
                            server_url |-> <<>>,
                            xml_file |-> marc_file]>>
                    ELSE <<>>)]

\* ------------------------------------------------------------------------
\* MARC retrieval: job discovery actions
\* ------------------------------------------------------------------------
DistinctNames(scan) ==
    \A i, j \in 1..Len(scan) : scan[i].name = scan[j].name => i = j

\* directory listings of at most n entries
RECURSIVE Scans(_)
Scans(n) ==
    IF n = 0 THEN {<<>>}
    ELSE Scans(n - 1) \cup
         {Append(s, e) : s \in {t \in Scans(n - 1) : Len(t) = n - 1},
                         e \in DirEntries}

MarcUserArgs ==
    [identifier_type : SUPPORTED_IDENTIFIERS,
     add_955 : BOOLEAN, add_035 : BOOLEAN]

\* the user fills in the options; the configuration may lack the server url
MarcSelectInput ==
    /\ gm_pc = "idle"
    /\ gm_config' \in {<<>>, <<"server">>}
    /\ gm_scan' \in {s \in Scans(MaxScan) : DistinctNames(s)}
    /\ gm_args' \in MarcUserArgs
    /\ gm_pc' = "selected"
    /\ UNCHANGED <<gm_scanned, gm_error, gm_jobs, gm_next, gm_subtasks>>
    /\ UNCHANGED notMarcJob

\* discover_task_metadata; an exception ends the workflow
MarcDiscoverTaskMetadata ==
    /\ gm_pc = "selected"
    /\ LET r == marc_discover_task_metadata(gm_config, gm_scan, gm_args)
       IN  /\ gm_scanned' = r.scanned
           /\ gm_jobs' = r.jobs
           /\ gm_error' = IF r.raised = "none" THEN <<>>
                          ELSE <<[type |-> r.raised, message |-> r.message,
                                  path |-> r.path]>>
           /\ gm_pc' = IF r.raised = "none" THEN "discovered" ELSE "raised"
    /\ UNCHANGED <<gm_config, gm_scan, gm_args, gm_next, gm_subtasks>>
    /\ UNCHANGED notMarcJob

\* create_new_task for the next job of the list
MarcCreateNewTask ==
    /\ gm_pc = "discovered"
    /\ gm_next < Len(gm_jobs)
    /\ LET r == marc_create_new_task(gm_jobs[gm_next + 1])
       IN  /\ gm_subtasks' = gm_subtasks \o r.subtasks
           /\ gm_error' = IF r.raised = "none" THEN <<>>
                          ELSE <<[type |-> r.raised, message |-> "",
                                  path |-> <<>>]>>
           /\ gm_pc' = IF r.raised = "none" THEN "discovered" ELSE "raised"
    /\ gm_next' = gm_next + 1
    /\ UNCHANGED <<gm_config, gm_scan, gm_args, gm_scanned, gm_jobs>>
    /\ UNCHANGED notMarcJob

MarcJobInit ==
    /\ gm_pc = "idle"
    /\ gm_config = <<>>
    /\ gm_scan = <<>>
    /\ gm_args = [identifier_type |-> "Bibid",
                  add_955 |-> FALSE, add_035 |-> FALSE]
    /\ gm_scanned = 0
    /\ gm_error = <<>>
    /\ gm_jobs = <<>>
    /\ gm_next = 0
    /\ gm_subtasks = <<>>

\* ------------------------------------------------------------------------
\* Generate OCR Files
\* ------------------------------------------------------------------------
TESSERACT_PATH_LABEL == "Tesseract data file location"

\* OCRWorkflow.SUPPORTED_IMAGE_TYPES, as [key, value] pairs
SUPPORTED_IMAGE_TYPES ==
    {[key |-> "JPEG 2000", value |-> ".jp2"],
     [key |-> "TIFF", value |-> ".tif"]}

\* values of the "Image File Type" option; "PNG" is not a supported type
ImageFileTypes == {"JPEG 2000", "TIFF", "PNG"}

\* uiucprescon.ocr.LANGUAGE_CODES, as [key, value] pairs
LANGUAGE_CODES == {[key |-> "eng", value |-> "English"]}

\* values of the "Language" option; "Klingon" has no language code
Languages == {"English", "Klingon"}

\* values of the configuration: not set, a directory, a path that is gone
TessdataSettings == {<<>>, <<"tessdata">>, <<"gone">>}

\* os.path.exists
exists(path) == path = "tessdata"

\* extensions of the files under Path
Extensions == {".jp2", ".JP2", ".tif"}

\* str.lower of an extension
lower_ext(ext) == IF ext = ".JP2" THEN ".jp2" ELSE ext

\* OCRWorkflow.get_file_extension: <<>> stands for KeyError
get_file_extension(file_type) ==
    IF \E t \in SUPPORTED_IMAGE_TYPES : t.key = file_type
    THEN <<(CHOOSE t \in SUPPORTED_IMAGE_TYPES : t.key = file_type).value>>
    ELSE <<>>

\* OCRWorkflow.initial_task: the exception, and the subtasks it adds
ocr_initial_task(args) ==
    LET file_extension == get_file_extension(args.file_type)
    IN  IF file_extension = <<>>
        THEN [raised |-> "JobCancelled", subtasks |-> <<>>]
        ELSE [raised |-> "none",
              subtasks |-> <<[task |-> "FindImagesTask",
                              source |-> 0,
                              extension |-> file_extension,
                              tesseract_path |-> <<>>,
                              status |-> "created",
                              read_with |-> <<>>]>>]

\* FindImagesTask.work: the files whose extension, lowered, is the wanted one
RECURSIVE find_images(_, _, _)
find_images(files, k, extension) ==
    IF k > Len(files) THEN <<>>
    ELSE (IF lower_ext(files[k]) = extension THEN <<k>> ELSE <<>>)
         \o find_images(files, k + 1, extension)

\* the language code of a language: <<>> stands for the for-else ValueError
language_code(language) ==
    IF \E c \in LANGUAGE_CODES : c.value = language
    THEN <<(CHOOSE c \in LANGUAGE_CODES : c.value = language).key>>
    ELSE <<>>

\* the loop over the image files of the initial results
ocr_jobs(images, language) ==
    [i \in 1..Len(images) |->
        [source_file_path |-> images[i],
         output_file_name |-> [base |-> images[i], ext |-> ".txt"],
         lang_code |-> language_code(language)[1]]]

\* mutant: a value that is not set is taken for a usable directory
ocr_discover_unchecked(tessdata_path, images, args) ==
    IF images # <<>> /\ language_code(args.language) = <<>>
    THEN [raised |-> "ValueError", jobs |-> <<>>]
    ELSE [raised |-> "none", jobs |-> ocr_jobs(images, args.language)]

\* OCRWorkflow.discover_task_metadata
ocr_discover_task_metadata(tessdata_path, images, args) ==
    IF tessdata_path = <<>>
    THEN [raised |-> "InvalidConfiguration", jobs |-> <<>>]
    ELSE IF ~ exists(tessdata_path[1])
    THEN [raised |-> "InvalidConfiguration", jobs |-> <<>>]
    ELSE IF images # <<>> /\ language_code(args.language) = <<>>
    THEN [raised |-> "ValueError", jobs |-> <<>>]
    ELSE [raised |-> "none", jobs |-> ocr_jobs(images, args.language)]

\* GenerateOCRFileTask.set_tess_path: cls.engine = ocr.Engine(path), a new
\* object, here told apart by the subtask whose constructor made it
set_tess_path(made_by, path) ==
    <<[made_by |-> made_by, data_set_path |-> path]>>

\* OCRWorkflow.create_new_task: the exception, the subtask it adds and the
\* class attribute GenerateOCRFileTask.engine after the constructor
ocr_create_new_task(tessdata_path, job_args, engine, index) ==
    IF tessdata_path = <<>>
    THEN [raised |-> "MissingConfiguration", subtasks |-> <<>>,
          engine |-> engine]
    ELSE [raised |-> "none",
          subtasks |-> <<[task |-> "GenerateOCRFileTask",
                          source |-> job_args.source_file_path,
                          extension |-> <<>>,
                          tesseract_path |-> tessdata_path,
                          status |-> "created",
                          read_with |-> <<>>]>>,
          engine |-> set_tess_path(index, tessdata_path[1])]

\* ------------------------------------------------------------------------
\* Generate OCR Files: actions
\* ------------------------------------------------------------------------
\* listings of at most n files under Path, each given by its extension
RECURSIVE FileListings(_)
FileListings(n) ==
    IF n = 0 THEN {<<>>}
    ELSE FileListings(n - 1) \cup
         {Append(s, e) : s \in {t \in FileListings(n - 1) : Len(t) = n - 1},
                         e \in Extensions}

OcrUserArgs == [file_type : ImageFileTypes, language : Languages]

\* the user fills in the options; the configuration is what it is
OcrSelectInput ==
    /\ oc_pc = "idle"
    /\ oc_config' \in TessdataSettings
    /\ oc_args' \in OcrUserArgs
    /\ oc_files' \in FileListings(MaxImages)
    /\ oc_pc' = "selected"
    /\ UNCHANGED <<oc_initial_results, oc_jobs, oc_next, oc_subtasks,
                   oc_engine, oc_error>>
    /\ UNCHANGED notOcr

\* initial_task: the first thing the host calls for a job
OcrInitialTask ==
    /\ oc_pc = "selected"
    /\ LET r == ocr_initial_task(oc_args)
       IN  /\ oc_subtasks' = r.subtasks
           /\ oc_error' = IF r.raised = "none" THEN <<>>
                          ELSE <<[type |-> r.raised,
                                  raised_by |-> "initial_task"]>>
           /\ oc_pc' = IF r.raised = "none" THEN "initial" ELSE "raised"
    /\ UNCHANGED <<oc_config, oc_args, oc_files, oc_initial_results, oc_jobs,
                   oc_next, oc_engine>>
    /\ UNCHANGED notOcr

\* FindImagesTask.work: its result is the initial_results argument of
\* discover_task_metadata
FindImagesTaskWork ==
    /\ oc_pc = "initial"
    /\ oc_initial_results' =
          find_images(oc_files, 1, oc_subtasks[1].extension[1])
    /\ oc_subtasks' = [oc_subtasks EXCEPT ![1].status = "returned True"]
    /\ oc_pc' = "found"
    /\ UNCHANGED <<oc_config, oc_args, oc_files, oc_jobs, oc_next, oc_engine,
                   oc_error>>
    /\ UNCHANGED notOcr

\* discover_task_metadata(initial_results, additional_data, user_args)
OcrDiscoverTaskMetadata ==
    /\ oc_pc = "found"
    /\ LET r == ocr_discover_task_metadata(oc_config, oc_initial_results,
                                           oc_args)
       IN  /\ oc_jobs' = r.jobs
           /\ oc_error' = IF r.raised = "none" THEN <<>>
                          ELSE <<[type |-> r.raised,
                                  raised_by |-> "discover_task_metadata"]>>
           /\ oc_pc' = IF r.raised = "none" THEN "discovered" ELSE "raised"
    /\ UNCHANGED <<oc_config, oc_args, oc_files, oc_initial_results, oc_next,
                   oc_subtasks, oc_engine>>
    /\ UNCHANGED notOcr

\* create_new_task for the next job: the constructor of GenerateOCRFileTask
\* assigns the class attribute engine
OcrCreateNewTask ==
    /\ oc_pc = "discovered"
    /\ oc_next < Len(oc_jobs)
    /\ LET r == ocr_create_new_task(oc_config, oc_jobs[oc_next + 1],
                                    oc_engine, Len(oc_subtasks) + 1)
       IN  /\ oc_subtasks' = oc_subtasks \o r.subtasks
           /\ oc_engine' = r.engine
           /\ oc_error' = IF r.raised = "none" THEN <<>>
                          ELSE <<[type |-> r.raised,
                                  raised_by |-> "create_new_task"]>>
           /\ oc_pc' = IF r.raised = "none" THEN "discovered" ELSE "raised"
    /\ oc_next' = oc_next + 1
    /\ UNCHANGED <<oc_config, oc_args, oc_files, oc_initial_results, oc_jobs>>
    /\ UNCHANGED notOcr

\* GenerateOCRFileTask.work of one subtask, once every subtask of the job
\* is built; the host runs them in any order.  read_image reads self.engine,
\* which is the class attribute, and the reader succeeds or fails.
GenerateOCRFileTaskWork ==
    /\ oc_pc = "discovered"
    /\ oc_next = Len(oc_jobs)
    /\ \E i \in 1..Len(oc_subtasks), read_ok \in BOOLEAN :
          /\ oc_subtasks[i].task = "GenerateOCRFileTask"
          /\ oc_subtasks[i].status = "created"
          /\ oc_subtasks' = [oc_subtasks EXCEPT
                ![i].read_with = oc_engine,
                ![i].status = IF oc_engine = <<>> THEN "raised RuntimeError"
                              ELSE IF read_ok THEN "returned True"
                              ELSE "raised SpeedwagonException"]
    /\ UNCHANGED <<oc_pc, oc_config, oc_args, oc_files, oc_initial_results,
                   oc_jobs, oc_next, oc_engine, oc_error>>
    /\ UNCHANGED notOcr

OcrInit ==
    /\ oc_pc = "idle"
    /\ oc_config = <<>>
    /\ oc_args = [file_type |-> "TIFF", language |-> "English"]
    /\ oc_files = <<>>
    /\ oc_initial_results = <<>>
    /\ oc_jobs = <<>>
    /\ oc_next = 0
    /\ oc_subtasks = <<>>
    /\ oc_engine = <<>>
    /\ oc_error = <<>>

\* ------------------------------------------------------------------------
\* Convert CaptureOne TIFF to Digital Library Compound Object and HathiTrust
\* ------------------------------------------------------------------------
\* keys of SUPPORTED_PACKAGE_SOURCES
SUPPORTED_PACKAGE_SOURCES ==
    {"Capture One", "Archival collections/Non EAS",
     "Cataloged collections/Non EAS", "EAS"}

\* values of the "Package Type" option
PackageTypes == SUPPORTED_PACKAGE_SOURCES \cup {"not a real package type"}

\* values of an output option: <<>> is None, <<s>> the string s, a string
\* being a sequence of characters
OutputValues == {<<>>, <<<<>>>>, <<<<" ">>>>, <<<<"d", "l">>>>}

\* str.strip
RECURSIVE lstrip(_)
lstrip(s) == IF s # <<>> /\ Head(s) = " " THEN lstrip(Tail(s)) ELSE s

RECURSIVE rstrip(_)
rstrip(s) ==
    IF s # <<>> /\ s[Len(s)] = " " THEN rstrip(SubSeq(s, 1, Len(s) - 1))
    ELSE s

strip(s) == rstrip(lstrip(s))

\* at_least_one_output_is_selected(candidate, job_args, key), with other
\* the value of job_args.get(key)
at_least_one_output_is_selected(candidate, other) ==
    \/ candidate # <<>> /\ strip(candidate[1]) # <<>>
    \/ other # <<>> /\ strip(other[1]) # <<>>

candidate_is_empty(candidate) ==
    \/ candidate = <<>>
    \/ strip(candidate[1]) = <<>>

\* the validations job_options puts on the two output options
outputs_are_valid(output_dl, output_ht) ==
    /\ candidate_is_empty(output_dl) =>
          at_least_one_output_is_selected(output_dl, output_ht)
    /\ candidate_is_empty(output_ht) =>
          at_least_one_output_is_selected(output_ht, output_dl)

\* what PackageFactory.locate_packages does: it yields `found` packages and
\* then ends, or raises
LocateOutcomes(n) == [found : 0..n, fails : BOOLEAN]

\* the loop over package_factory.locate_packages(source_input)
capture_jobs(args, found) ==
    [i \in 1..found |->
        [package |-> i,
         output_dl |-> args.output_dl,
         output_ht |-> args.output_ht,
         source_path |-> "Input"]]

\* mutant: the package type is not looked up before it is used
capture_discover_no_type_check(args, located_packages) ==
    IF args.package_type \notin SUPPORTED_PACKAGE_SOURCES \/ located_packages.fails
    THEN [raised |-> "SpeedwagonException",
          message |-> "Failed to locate packages at",
          names |-> "Input", jobs |-> <<>>]
    ELSE [raised |-> "none", message |-> "", names |-> "",
          jobs |-> capture_jobs(args, located_packages.found)]

\* mutant: an empty list of jobs is returned as it is
capture_discover_returns_empty(args, located_packages) ==
    IF located_packages.fails
    THEN [raised |-> "SpeedwagonException",
          message |-> "Failed to locate packages at",
          names |-> "Input", jobs |-> <<>>]
    ELSE [raised |-> "none", message |-> "", names |-> "",
          jobs |-> capture_jobs(args, located_packages.found)]

\* CaptureOneToDlCompoundAndDLWorkflow.discover_task_metadata
capture_discover_task_metadata(args, located_packages) ==
    IF args.package_type \notin SUPPORTED_PACKAGE_SOURCES
    THEN [raised |-> "ValueError",
          message |-> "Unknown package type",
          names |-> args.package_type, jobs |-> <<>>]
    ELSE IF located_packages.fails
    THEN [raised |-> "SpeedwagonException",
          message |-> "Failed to locate packages at",
          names |-> "Input", jobs |-> <<>>]
    ELSE IF located_packages.found = 0
    THEN [raised |-> "JobCancelled",
          message |-> "No packages located at",
          names |-> "Input", jobs |-> <<>>]
    ELSE [raised |-> "none", message |-> "", names |-> "",
          jobs |-> capture_jobs(args, located_packages.found)]

\* PackageConverter.__init__
PackageConverter(existing_package, new_package_root, package_format) ==
    [package |-> existing_package,
     new_package_root |-> new_package_root,
     package_format |-> package_format,
     status |-> "created"]

\* CaptureOneToDlCompoundAndDLWorkflow.create_new_task: the subtasks added
capture_create_new_task(job_args) ==
    (IF job_args.output_dl # <<>>
     THEN <<PackageConverter(job_args.package, job_args.output_dl[1],
                             "Digital Library Compound")>>
     ELSE <<>>)
    \o (IF job_args.output_ht # <<>>
        THEN <<PackageConverter(job_args.package, job_args.output_ht[1],
                                "HathiTrust jp2")>>
        ELSE <<>>)

\* ------------------------------------------------------------------------
\* CaptureOne conversion: actions
\* ------------------------------------------------------------------------
CaptureUserArgs ==
    [package_type : PackageTypes,
     output_dl : OutputValues,
     output_ht : OutputValues]

\* the user fills in the options, which pass the validations; the Input
\* directory is what it is
CaptureSelectInput ==
    /\ co_pc = "idle"
    /\ \E args \in CaptureUserArgs :
          /\ outputs_are_valid(args.output_dl, args.output_ht)
          /\ co_args' = args
    /\ co_locate' \in LocateOutcomes(MaxLocated)
    /\ co_pc' = "selected"
    /\ UNCHANGED <<co_jobs, co_error, co_next, co_subtasks>>
    /\ UNCHANGED notCapture

\* discover_task_metadata; an exception ends the workflow
CaptureDiscoverTaskMetadata ==
    /\ co_pc = "selected"
    /\ LET r == capture_discover_task_metadata(co_args, co_locate)
       IN  /\ co_jobs' = r.jobs
           /\ co_error' = IF r.raised = "none" THEN <<>>
                          ELSE <<[type |-> r.raised, message |-> r.message,
                                  names |-> r.names]>>
           /\ co_pc' = IF r.raised = "none" THEN "discovered" ELSE "raised"
    /\ UNCHANGED <<co_args, co_locate, co_next, co_subtasks>>
    /\ UNCHANGED notCapture

\* create_new_task for the next job of the list
CaptureCreateNewTask ==
    /\ co_pc = "discovered"
    /\ co_next < Len(co_jobs)
    /\ co_subtasks' = co_subtasks \o capture_create_new_task(co_jobs[co_next + 1])
    /\ co_next' = co_next + 1
    /\ UNCHANGED <<co_pc, co_args, co_locate, co_jobs, co_error>>
    /\ UNCHANGED notCapture

\* PackageConverter.work of one subtask, once every subtask is built:
\* package_factory.transform(existing_package, dest=new_package_root)
PackageConverterWork ==
    /\ co_pc = "discovered"
    /\ co_next = Len(co_jobs)
    /\ \E i \in 1..Len(co_subtasks) :
          /\ co_subtasks[i].status = "created"
          /\ co_subtasks' = [co_subtasks EXCEPT ![i].status = "returned True"]
    /\ UNCHANGED <<co_pc, co_args, co_locate, co_jobs, co_error, co_next>>
    /\ UNCHANGED notCapture

CaptureInit ==
    /\ co_pc = "idle"
    /\ co_args = [package_type |-> "Capture One",
                  output_dl |-> <<>>, output_ht |-> <<>>]
    /\ co_locate = [found |-> 0, fails |-> FALSE]
    /\ co_jobs = <<>>
    /\ co_error = <<>>
    /\ co_next = 0
    /\ co_subtasks = <<>>

\* ------------------------------------------------------------------------
\* MARC enhancement
\* ------------------------------------------------------------------------
\* A record is the sequence of the children of its root element.  A child
\* is the leader, a controlfield or a datafield; a datafield has a tag of
\* three digits, a first subfield [code, text] and the subfields after it
\* (rest).
FIELD_035 == <<"0", "3", "5">>

FIELD_245 == <<"2", "4", "5">>

FIELD_955 == <<"9", "5", "5">>

FIELD_959 == <<"9", "5", "9">>

DataFields ==
    [kind : {"datafield"},
     tag : {FIELD_035, FIELD_245, FIELD_955},
     code : {"b"},
     text : {"1", "x"},
     rest : {<<>>}]

\* 959 datafields: with and without a subfield that names UIUdb, as the
\* first or the second subfield
UiuFields ==
    [kind : {"datafield"},
     tag : {FIELD_959},
     code : {"a"},
     text : {"(UIUdb)1", "UIUdb3", "x"},
     rest : {<<>>, <<[code |-> "b", text |-> "(UIUdb)2"]>>}]

OtherFields ==
    {[kind |-> "leader", tag |-> <<>>, code |-> "", text |-> "x",
      rest |-> <<>>],
     [kind |-> "controlfield", tag |-> <<"0", "0", "1">>, code |-> "",
      text |-> "x", rest |-> <<>>]}

Elements == DataFields \cup UiuFields \cup OtherFields

\* values of added_value: the name of the folder of the record
AddedValues == {"1", "2"}

DigitValue(c) ==
    CASE c = "0" -> 0 [] c = "1" -> 1 [] c = "2" -> 2 [] c = "3" -> 3
      [] c = "4" -> 4 [] c = "5" -> 5 [] c = "6" -> 6 [] c = "7" -> 7
      [] c = "8" -> 8 [] c = "9" -> 9

\* int(x.attrib["tag"])
RECURSIVE int(_)
int(tag) ==
    IF tag = <<>> THEN 0
    ELSE 10 * int(SubSeq(tag, 1, Len(tag) - 1)) + DigitValue(tag[Len(tag)])

\* tree.findall(".//marc:datafield", namespaces), in document order
RECURSIVE findall_datafield(_)
findall_datafield(root) ==
    IF root = <<>> THEN <<>>
    ELSE (IF Head(root).kind = "datafield" THEN <<Head(root)>> ELSE <<>>)
         \o findall_datafield(Tail(root))

\* the root after root.remove(datafield) for every datafield found
RECURSIVE remove_datafields(_)
remove_datafields(root) ==
    IF root = <<>> THEN <<>>
    ELSE (IF Head(root).kind = "datafield" THEN <<>> ELSE <<Head(root)>>)
         \o remove_datafields(Tail(root))

\* sorted(fields, key=lambda x: int(x.attrib["tag"])): a stable sort
RECURSIVE insert_by_tag(_, _)
insert_by_tag(field, fields) ==
    IF fields = <<>> THEN <<field>>
    ELSE IF int(Head(fields).tag) <= int(field.tag)
         THEN <<Head(fields)>> \o insert_by_tag(field, Tail(fields))
         ELSE <<field>> \o fields

RECURSIVE sorted_by_tag(_)
sorted_by_tag(fields) ==
    IF fields = <<>> THEN <<>>
    ELSE insert_by_tag(fields[Len(fields)],
                       sorted_by_tag(SubSeq(fields, 1, Len(fields) - 1)))

\* mutant: the datafields found are not removed from the root
redraw_tree_without_remove(root, new_datafields) ==
    root \o sorted_by_tag(new_datafields \o findall_datafield(root))

\* EnhancementTask.redraw_tree
redraw_tree(root, new_datafields) ==
    remove_datafields(root)
    \o sorted_by_tag(new_datafields \o findall_datafield(root))

\* MarcEnhancement955Task.create_new_955_element
create_new_955_element(added_value) ==
    [kind |-> "datafield", tag |-> FIELD_955, code |-> "b",
     text |-> added_value, rest |-> <<>>]

\* MarcEnhancement955Task.enhance_tree_with_955
enhance_tree_with_955(root, added_value) ==
    redraw_tree(root, <<create_new_955_element(added_value)>>)

\* "sub" in text
str_contains(text, sub) ==
    \E i \in 1..(Len(text) - Len(sub) + 1) :
        SubSeq(text, i, i + Len(sub) - 1) = sub

\* text.replace(old, new): every occurrence, leftmost first
RECURSIVE str_replace(_, _, _)
str_replace(text, old, new) ==
    IF Len(text) < Len(old) THEN text
    ELSE IF SubSeq(text, 1, Len(old)) = old
         THEN new \o str_replace(SubSeq(text, Len(old) + 1, Len(text)),
                                 old, new)
         ELSE SubSeq(text, 1, 1)
              \o str_replace(SubSeq(text, 2, Len(text)), old, new)

\* the subfields of a datafield, in document order
subfields_of(datafield) ==
    <<[code |-> datafield.code, text |-> datafield.text]>>
    \o datafield.rest

RECURSIVE uiudb_subfields_in(_)
uiudb_subfields_in(subfields) ==
    IF subfields = <<>> THEN <<>>
    ELSE (IF str_contains(Head(subfields).text, "UIUdb")
          THEN <<Head(subfields)>> ELSE <<>>)
         \o uiudb_subfields_in(Tail(subfields))

\* list(MarcEnhancement035Task.find_959_field_with_uiudb(tree))
RECURSIVE find_959_field_with_uiudb(_)
find_959_field_with_uiudb(root) ==
    IF root = <<>> THEN <<>>
    ELSE (IF Head(root).kind = "datafield" /\ Head(root).tag = FIELD_959
          THEN uiudb_subfields_in(subfields_of(Head(root)))
          ELSE <<>>)
         \o find_959_field_with_uiudb(Tail(root))

\* MarcEnhancement035Task.new_035_field
new_035_field(data) ==
    [kind |-> "datafield", tag |-> FIELD_035, code |-> data.code,
     text |-> str_replace(data.text, "(UIUdb)", "(UIU)Voyager"),
     rest |-> <<>>]

\* mutant: the 035 field is made from the last subfield found
enhance_tree_with_035_last(root) ==
    LET uiudb_subfields == find_959_field_with_uiudb(root)
    IN  IF uiudb_subfields # <<>>
        THEN [written |-> TRUE,
              root |-> redraw_tree(root,
                 <<new_035_field(uiudb_subfields[Len(uiudb_subfields)])>>)]
        ELSE [written |-> FALSE, root |-> root]

\* MarcEnhancement035Task.work, from the parsed tree on: whether the file
\* is written, and the root it is written from
enhance_tree_with_035(root) ==
    LET uiudb_subfields == find_959_field_with_uiudb(root)
    IN  IF uiudb_subfields # <<>>
        THEN [written |-> TRUE,
              root |-> redraw_tree(root,
                                   <<new_035_field(uiudb_subfields[1])>>)]
        ELSE [written |-> FALSE, root |-> root]

\* ------------------------------------------------------------------------
\* MARC enhancement: actions
\* ------------------------------------------------------------------------
\* records of at most n children
RECURSIVE Records(_)
Records(n) ==
    IF n = 0 THEN {<<>>}
    ELSE Records(n - 1) \cup
         {Append(s, e) : s \in {t \in Records(n - 1) : Len(t) = n - 1},
                         e \in Elements}

\* the record in MARC.XML and the value the task was created with
EnhanceSelectRecord ==
    /\ en_pc = "idle"
    /\ en_tree' \in Records(MaxFields)
    /\ en_added_value' \in AddedValues
    /\ en_file' = en_tree'
    /\ en_pc' = "parsed"
    /\ UNCHANGED <<en_result, en_written, en_returned>>
    /\ UNCHANGED notEnhance

\* MarcEnhancement955Task.work: root = self.enhance_tree_with_955(tree),
\* written to the file
Enhance955 ==
    /\ en_pc = "parsed"
    /\ en_result' = enhance_tree_with_955(en_tree, en_added_value)
    /\ en_file' = en_result'
    /\ en_written' = TRUE
    /\ en_returned' = <<TRUE>>
    /\ en_pc' = "enhanced 955"
    /\ UNCHANGED <<en_tree, en_added_value>>
    /\ UNCHANGED notEnhance

\* MarcEnhancement035Task.work
Enhance035 ==
    /\ en_pc = "parsed"
    /\ LET r == enhance_tree_with_035(en_tree)
       IN  /\ en_result' = r.root
           /\ en_written' = r.written
           /\ en_file' = IF r.written THEN r.root ELSE en_file
    /\ en_returned' = <<TRUE>>
    /\ en_pc' = "enhanced 035"
    /\ UNCHANGED <<en_tree, en_added_value>>
    /\ UNCHANGED notEnhance

EnhanceInit ==
    /\ en_pc = "idle"
    /\ en_tree = <<>>
    /\ en_added_value = "1"
    /\ en_result = <<>>
    /\ en_file = <<>>
    /\ en_written = FALSE
    /\ en_returned = <<>>

\* ------------------------------------------------------------------------
\* MARC enhancement: the two enhancement tasks of one MARC.XML
\* ------------------------------------------------------------------------
EnhancementTasks == {"MarcEnhancement955Task", "MarcEnhancement035Task"}

\* what a task writes, from the tree it parsed
enhancement_of(task, tree, added_value) ==
    IF task = "MarcEnhancement955Task"
    THEN [written |-> TRUE, root |-> enhance_tree_with_955(tree, added_value)]
    ELSE enhance_tree_with_035(tree)

\* MarcGeneratorTask has written MARC.XML; create_new_task added both
\* enhancement tasks for it
MarcFileFetched ==
    /\ mf_pc = "idle"
    /\ \E record \in Records(MaxShared) : mf_file' = <<record>>
    /\ mf_added_value' \in AddedValues
    /\ mf_tasks' = [t \in EnhancementTasks |-> [pc |-> "created", tree |-> <<>>]]
    /\ mf_pc' = "fetched"
    /\ UNCHANGED mf_garbled
    /\ UNCHANGED notMarcFile

\* tree = ET.parse(self.xml_file); a file just opened for writing by the
\* other task is empty and does not parse (provide_info raises
\* SpeedwagonException).  The 035 task returns here when it finds no
\* subfield to copy.
EnhancementParse ==
    /\ mf_pc = "fetched"
    /\ \E t \in EnhancementTasks :
          /\ mf_tasks[t].pc = "created"
          /\ mf_tasks' = [mf_tasks EXCEPT ![t] =
                IF mf_file = <<>> \/ mf_garbled
                THEN [pc |-> "raised", tree |-> <<>>]
                ELSE [pc |-> IF enhancement_of(t, mf_file[1],
                                               mf_added_value).written
                             THEN "parsed" ELSE "returned",
                      tree |-> mf_file[1]]]
    /\ UNCHANGED <<mf_pc, mf_file, mf_added_value, mf_garbled>>
    /\ UNCHANGED notMarcFile

\* open(self.xml_file, "w"): the file is truncated
EnhancementOpen ==
    /\ mf_pc = "fetched"
    /\ \E t \in EnhancementTasks :
          /\ mf_tasks[t].pc = "parsed"
          /\ mf_tasks' = [mf_tasks EXCEPT ![t].pc = "opened"]
    /\ mf_file' = <<>>
    /\ mf_garbled' = FALSE
    /\ UNCHANGED <<mf_pc, mf_added_value>>
    /\ UNCHANGED notMarcFile

\* write_file.write(self.to_pretty_string(root)) and close.  When the other
\* task has written since this one opened the file, the text is laid over
\* the other's and what is left of a longer text stays behind it.
EnhancementWrite ==
    /\ mf_pc = "fetched"
    /\ \E t \in EnhancementTasks :
          /\ mf_tasks[t].pc = "opened"
          /\ mf_tasks' = [mf_tasks EXCEPT ![t].pc = "returned"]
          /\ mf_file' = <<enhancement_of(t, mf_tasks[t].tree,
                                         mf_added_value).root>>
    /\ mf_garbled' \in (IF mf_file = <<>> THEN {FALSE} ELSE BOOLEAN)
    /\ UNCHANGED <<mf_pc, mf_added_value>>
    /\ UNCHANGED notMarcFile

MarcFileInit ==
    /\ mf_pc = "idle"
    /\ mf_file = <<>>
    /\ mf_added_value = "1"
    /\ mf_tasks = [t \in EnhancementTasks |-> [pc |-> "created", tree |-> <<>>]]
    /\ mf_garbled = FALSE

\* ------------------------------------------------------------------------
\* Convert CaptureOne Preservation TIFF to Digital Library Access JP2:
\* generate_report
\* ------------------------------------------------------------------------
\* the result PackageImageConverterTask.work sets: a converted file has its
\* output file (a directory and a name), a failed one has none
ConverterResults ==
    [success : {TRUE}, source_filename : 1..2,
     output_filename : {<<[dir |-> d, name |-> n]>> : d \in 1..2, n \in 1..2}]
    \cup [success : {FALSE}, source_filename : 1..2, output_filename : {<<>>}]

successful(res) == res.success

unsuccessful(res) == ~res.success

\* ConvertTiffPreservationToDLJp2Workflow._partition_results
partition_results(results) ==
    [failed_results |-> SelectSeq(results, unsuccessful),
     successful_results |-> SelectSeq(results, successful)]

\* ConvertTiffPreservationToDLJp2Workflow.generate_report: 'Success!' with
\* the folder written to, or 'Failed!' with the source files that failed
ConvertTiffPreservationToDLJp2Workflow_generate_report(results) ==
    LET parts == partition_results(results)
        dest_paths ==
            {parts.successful_results[i].output_filename[1].dir :
                i \in 1..Len(parts.successful_results)}
    IN  IF Cardinality(dest_paths) = 1
        THEN [status |-> "Success!", dest |-> dest_paths,
              failed_list |-> <<>>]
        ELSE [status |-> "Failed!", dest |-> {},
              failed_list |->
                 [i \in 1..Len(parts.failed_results) |->
                     parts.failed_results[i].source_filename]]

\* the conversion tasks of a run have ended with these results
ConverterResultsGiven ==
    /\ cr_pc = "idle"
    /\ \E n \in 0..MaxResults : cr_results' \in [1..n -> ConverterResults]
    /\ cr_pc' = "finished"
    /\ UNCHANGED cr_report
    /\ UNCHANGED notConvert

ConverterGenerateReport ==
    /\ cr_pc = "finished"
    /\ cr_report' =
          ConvertTiffPreservationToDLJp2Workflow_generate_report(cr_results)
    /\ cr_pc' = "reported"
    /\ UNCHANGED cr_results
    /\ UNCHANGED notConvert

ConvertInit ==
    /\ cr_pc = "idle"
    /\ cr_results = <<>>
    /\ cr_report = [status |-> "", dest |-> {}, failed_list |-> <<>>]

\* ------------------------------------------------------------------------
\* Make JP2: jobs, subtasks and their work
\* ------------------------------------------------------------------------
\* ProfileFactory.profiles, with the image_factory of each profile
ProfileFactory_profiles ==
    {[name |-> "HathiTrust", image_factory |-> "HathiTrust JPEG 2000"],
     [name |-> "Digital Library",
      image_factory |-> "Digital Library JPEG 2000"]}

\* the folders named "access" below Input, relative to Input
AccessFolders == {<<"access">>, <<"99423682912205899", "access">>}

\* names of the entries of an access folder
EntryNames == {"a.tif", "b.TIF", "c.d.tif", "e.jp2", ".tif"}

\* what os.scandir yields in the access folders
AccessEntries == [folder : AccessFolders, name : EntryNames, is_file : BOOLEAN]

\* the values of the options Input, Output and Profile
MakeJp2UserArgs ==
    [Input : {<<"in">>}, Output : {<<"out">>, <<"out", ".">>},
     Profile : {p.name : p \in ProfileFactory_profiles}]

\* os.path.normpath of a path given as its parts
RECURSIVE normpath(_)
normpath(path) ==
    IF path = <<>> THEN <<>>
    ELSE (IF Head(path) = "." THEN <<>> ELSE <<Head(path)>>)
         \o normpath(Tail(path))

\* os.path.join
path_join(a, b) == a \o b

\* os.path.basename and os.path.dirname
basename(path) == path[Len(path)]

dirname(path) == SubSeq(path, 1, Len(path) - 1)

\* os.path.relpath of a path below start
path_relative_to(path, start) == SubSeq(path, Len(start) + 1, Len(path))

\* the position of the last "." of a name at or before i, 0 without one
RECURSIVE last_dot(_, _)
last_dot(name, i) ==
    IF i = 0 THEN 0
    ELSE IF SubSeq(name, i, i) = "." THEN i ELSE last_dot(name, i - 1)

\* os.path.splitext: leading dots belong to the root
splitext(name) ==
    LET p == last_dot(name, Len(name))
    IN  IF p > 0 /\ (\E k \in 1..(p - 1) : SubSeq(name, k, k) # ".")
        THEN <<SubSeq(name, 1, p - 1), SubSeq(name, p, Len(name))>>
        ELSE <<name, "">>

\* str.lower of an extension
ext_lower(ext) == IF ext \in {".TIF", ".Tif"} THEN ".tif" ELSE ext

_filter_tif_only(item) ==
    IF ~item.is_file THEN FALSE
    ELSE IF ext_lower(splitext(item.name)[2]) # ".tif" THEN FALSE
    ELSE TRUE

\* locate_source_files: the paths of the tif files among the scanned entries
RECURSIVE locate_source_files(_, _)
locate_source_files(root, scanned) ==
    IF scanned = <<>> THEN <<>>
    ELSE (IF _filter_tif_only(Head(scanned))
          THEN <<path_join(path_join(root, Head(scanned).folder),
                           <<Head(scanned).name>>)>>
          ELSE <<>>)
         \o locate_source_files(root, Tail(scanned))

\* MakeJp2Workflow.discover_task_metadata
make_jp2_discover_task_metadata(args, scanned) ==
    LET source_root == args.Input
        destination_root == args.Output
        profile == CHOOSE p \in ProfileFactory_profiles :
                       p.name = args.Profile
        sources == locate_source_files(source_root, scanned)
    IN  [i \in 1..Len(sources) |->
            [source_root |-> normpath(source_root),
             source_file |-> basename(sources[i]),
             relative_location |->
                 normpath(dirname(path_relative_to(sources[i], source_root))),
             destination_root |-> normpath(destination_root),
             new_file_name |-> splitext(basename(sources[i]))[1] \o ".jp2",
             image_factory |-> profile.image_factory]]

\* create_new_task with the two subtasks added the other way round
make_jp2_create_new_task_converts_first(job_args) ==
    <<[task |-> "ConvertFileTask",
       path |-> <<>>,
       source_file |-> path_join(path_join(job_args.source_root,
                                           job_args.relative_location),
                                 <<job_args.source_file>>),
       destination_file |-> path_join(path_join(job_args.destination_root,
                                                job_args.relative_location),
                                      <<job_args.new_file_name>>),
       image_factory_name |-> job_args.image_factory],
      [task |-> "EnsurePathTask",
       path |-> path_join(job_args.destination_root,
                          job_args.relative_location),
       source_file |-> <<>>,
       destination_file |-> <<>>,
       image_factory_name |-> ""]>>

\* MakeJp2Workflow.create_new_task: the subtasks it adds, in order
make_jp2_create_new_task(job_args) ==
    LET source_root == job_args.source_root
        relative_location == job_args.relative_location
        destination_root == job_args.destination_root
        new_name == job_args.new_file_name
        source_file == path_join(path_join(source_root, relative_location),
                                 <<job_args.source_file>>)
        destination_file ==
            path_join(path_join(destination_root, relative_location),
                      <<new_name>>)
        make_dir == [task |-> "EnsurePathTask",
                     path |-> path_join(destination_root, relative_location),
                     source_file |-> <<>>,
                     destination_file |-> <<>>,
                     image_factory_name |-> ""]
        convert_task == [task |-> "ConvertFileTask",
                         path |-> <<>>,
                         source_file |-> source_file,
                         destination_file |-> destination_file,
                         image_factory_name |-> job_args.image_factory]
    IN  <<make_dir, convert_task>>

\* os.makedirs: the folder and every missing folder above it
makedirs(path) == {SubSeq(path, 1, k) : k \in 1..Len(path)}

\* the user picks the options; the access folders are scanned
MakeJp2Discover ==
    /\ mj_pc = "idle"
    /\ \E args \in MakeJp2UserArgs, n \in 0..MaxSources :
       \E scanned \in [1..n -> AccessEntries] :
           /\ \A i, j \in 1..n : i # j => scanned[i] # scanned[j]
           /\ mj_user_args' = args
           /\ mj_jobs' = make_jp2_discover_task_metadata(args, scanned)
    /\ mj_pc' = "discovered"
    /\ UNCHANGED <<mj_next, mj_subtasks, mj_ran, mj_dirs, mj_created>>
    /\ UNCHANGED notMakeJp2

\* the host calls create_new_task for the next job
MakeJp2CreateNewTask ==
    /\ mj_pc = "discovered"
    /\ mj_next < Len(mj_jobs)
    /\ mj_next' = mj_next + 1
    /\ mj_subtasks' =
           mj_subtasks \o make_jp2_create_new_task(mj_jobs[mj_next + 1])
    /\ UNCHANGED <<mj_pc, mj_user_args, mj_jobs, mj_ran, mj_dirs, mj_created>>
    /\ UNCHANGED notMakeJp2

\* EnsurePathTask.work of the next subtask
EnsurePathTask_work ==
    /\ mj_pc = "discovered"
    /\ mj_next = Len(mj_jobs)
    /\ mj_ran < Len(mj_subtasks)
    /\ mj_subtasks[mj_ran + 1].task = "EnsurePathTask"
    /\ mj_dirs' = IF mj_subtasks[mj_ran + 1].path \in mj_dirs
                  THEN mj_dirs
                  ELSE mj_dirs \cup makedirs(mj_subtasks[mj_ran + 1].path)
    /\ mj_ran' = mj_ran + 1
    /\ UNCHANGED <<mj_pc, mj_user_args, mj_jobs, mj_next, mj_subtasks,
                   mj_created>>
    /\ UNCHANGED notMakeJp2

\* ConvertFileTask.work of the next subtask: the file cannot be written
\* into a folder that does not exist
ConvertFileTask_work ==
    /\ mj_pc = "discovered"
    /\ mj_next = Len(mj_jobs)
    /\ mj_ran < Len(mj_subtasks)
    /\ mj_subtasks[mj_ran + 1].task = "ConvertFileTask"
    /\ IF dirname(mj_subtasks[mj_ran + 1].destination_file) \in mj_dirs
       THEN /\ mj_created' =
                   mj_created \cup {mj_subtasks[mj_ran + 1].destination_file}
            /\ mj_ran' = mj_ran + 1
            /\ mj_pc' = mj_pc
       ELSE /\ mj_pc' = "raised"
            /\ UNCHANGED <<mj_created, mj_ran>>
    /\ UNCHANGED <<mj_user_args, mj_jobs, mj_next, mj_subtasks, mj_dirs>>
    /\ UNCHANGED notMakeJp2

MakeJp2Init ==
    /\ mj_pc = "idle"
    /\ mj_user_args = [Input |-> <<"in">>, Output |-> <<"out">>,
                       Profile |-> "HathiTrust"]
    /\ mj_jobs = <<>>
    /\ mj_next = 0
    /\ mj_subtasks = <<>>
    /\ mj_ran = 0
    /\ mj_dirs = {<<"in">>, <<"out">>}
    /\ mj_created = {}

\* ------------------------------------------------------------------------
\* Plugin: the workflows handed to the host
\* ------------------------------------------------------------------------
\* a workflow class: its name, its module and its `name` attribute (no or
\* one string)
Workflow(class, module, name) ==
    [class |-> class, module |-> module, name |-> name]

\* plugin.active_workflows, in the order of the list: each class with the
\* module plugin.py imports it from and the name attribute of its body
\* (workflow_completeness: the name test_registered_workflows expects next
\* to those of the fourteen other classes)
active_workflows ==
    <<Workflow("GenerateMarcXMLFilesWorkflow",
               "workflow_get_marc",
               <<"Generate MARC.XML Files">>),
      Workflow("CaptureOneToDlCompoundAndDLWorkflow",
               "workflow_capture_one_to_dl_compound_and_dl",
               <<"Convert CaptureOne TIFF to Digital Library Compound Object and HathiTrust">>),
      Workflow("CompletenessWorkflow",
               "workflow_completeness",
               <<"Verify HathiTrust Package Completeness">>),
      Workflow("ConvertTiffPreservationToDLJp2Workflow",
               "workflow_convertCapOnePresToDigitalLibJP2",
               <<"Convert CaptureOne Preservation TIFF to Digital Library Access JP2">>),
      Workflow("HathiLimitedToDLWorkflow",
               "workflow_hathi_limited_to_dl_compound",
               <<"Convert HathiTrust limited view to Digital library">>),
      Workflow("HathiPrepWorkflow",
               "workflow_hathiprep",
               <<"Hathi Prep">>),
      Workflow("MakeChecksumBatchSingleWorkflow",
               "workflow_make_checksum",
               <<"Make Checksum Batch [Single]">>),
      Workflow("MakeChecksumBatchMultipleWorkflow",
               "workflow_make_checksum",
               <<"Make Checksum Batch [Multiple]">>),
      Workflow("MakeJp2Workflow",
               "workflow_make_jp2",
               <<"Make JP2">>),
      Workflow("MedusaPreingestCuration",
               "workflow_medusa_preingest",
               <<"Medusa Preingest Curation">>),
      Workflow("OCRWorkflow",
               "workflow_ocr",
               <<"Generate OCR Files">>),
      Workflow("ValidateImageMetadataWorkflow",
               "workflow_validate_hathi_metadata",
               <<"Validate Tiff Image Metadata for HathiTrust">>),
      Workflow("ChecksumWorkflow",
               "workflow_verify_checksums",
               <<"Verify Checksum Batch [Multiple]">>),
      Workflow("VerifyChecksumBatchSingleWorkflow",
               "workflow_verify_checksums",
               <<"Verify Checksum Batch [Single]">>),
      Workflow("ZipPackagesWorkflow",
               "workflow_zip_packages",
               <<"Zip Packages">>)>>

\* names of workflow classes that are not in the active list
InactiveNames ==
    {"Regenerate Checksum Batch [Single]",
     "Regenerate Checksum Batch [Multiple]",
     "Validate Metadata"}

\* the names test_registered_workflows expects
ExpectedWorkflows ==
    {"Generate MARC.XML Files",
     "Convert CaptureOne TIFF to Digital Library Compound Object and HathiTrust",
     "Verify HathiTrust Package Completeness",
     "Convert CaptureOne Preservation TIFF to Digital Library Access JP2",
     "Convert HathiTrust limited view to Digital library",
     "Hathi Prep",
     "Make Checksum Batch [Single]",
     "Make Checksum Batch [Multiple]",
     "Make JP2",
     "Medusa Preingest Curation",
     "Generate OCR Files",
     "Validate Tiff Image Metadata for HathiTrust",
     "Verify Checksum Batch [Multiple]",
     "Verify Checksum Batch [Single]",
     "Zip Packages"}

\* str(workflow) of a class
str(workflow) ==
    "<class 'speedwagon_uiucprescon." \o workflow.module \o "."
        \o workflow.class \o "'>"

\* mutant: the workflows are keyed by the module that defines them
workflow_key_is_module(workflow) ==
    workflow.module

\* workflow.name or str(workflow): the key of one workflow
workflow_key(workflow) ==
    IF workflow.name = <<>> \/ workflow.name = <<"">>
    THEN str(workflow)
    ELSE workflow.name[1]

empty_dict == [key \in {} |-> ""]

\* d[key] = value of a dict: a key already there keeps one entry, with the
\* new value
dict_set(d, key, value) ==
    [k \in DOMAIN d \cup {key} |-> IF k = key THEN value ELSE d[k]]

\* a caller (the host, or test_registered_workflows with one of its
\* parameters) calls registered_workflows() to look a name up
CallRegisteredWorkflows ==
    /\ pl_pc = "idle"
    /\ \E name \in ExpectedWorkflows \cup InactiveNames :
          pl_expected' = name
    /\ pl_index' = 1
    /\ pl_mapping' = empty_dict
    /\ pl_pc' = "registering"
    /\ UNCHANGED pl_found
    /\ UNCHANGED notPlugin

\* registered_workflows: one workflow of the dict comprehension
RegisterWorkflow ==
    /\ pl_pc = "registering"
    /\ pl_index <= Len(active_workflows)
    /\ LET workflow == active_workflows[pl_index]
       IN  pl_mapping' = dict_set(pl_mapping, workflow_key(workflow),
                                  workflow.class)
    /\ pl_index' = pl_index + 1
    /\ UNCHANGED <<pl_pc, pl_expected, pl_found>>
    /\ UNCHANGED notPlugin

\* registered_workflows returns; expected_workflow in registered_workflows()
ReturnRegisteredWorkflows ==
    /\ pl_pc = "registering"
    /\ pl_index > Len(active_workflows)
    /\ pl_found' = (pl_expected \in DOMAIN pl_mapping)
    /\ pl_pc' = "returned"
    /\ UNCHANGED <<pl_expected, pl_index, pl_mapping>>
    /\ UNCHANGED notPlugin

PluginInit ==
    /\ pl_pc = "idle"
    /\ pl_expected = ""
    /\ pl_index = 1
    /\ pl_mapping = empty_dict
    /\ pl_found = FALSE

\* ------------------------------------------------------------------------
\* Specifications
\* ------------------------------------------------------------------------
Init ==
    /\ MedusaInit
    /\ ChecksumInit
    /\ VerifyInit
    /\ ReportInit
    /\ MarcInit
    /\ MarcJobInit
    /\ OcrInit
    /\ CaptureInit
    /\ EnhanceInit
    /\ MarcFileInit
    /\ ConvertInit
    /\ MakeJp2Init
    /\ PluginInit

\* removal ordering and deletion tasks
NextRemoval ==
    \/ SelectPath
    \/ EnumerateForRemoval
    \/ GetAdditionalInfo
    \/ DiscoverTaskMetadata
    \/ CreateNewTask

SpecRemoval == Init /\ [][NextRemoval]_vars

\* offending-file detection
NextOffending ==
    \/ SelectNamedPath
    \/ FindOffendingFiles

SpecOffending == Init /\ [][NextOffending]_vars

\* checksum creation, single and multiple
NextChecksum ==
    \/ SelectInput
    \/ ChecksumDiscover
    \/ ChecksumCreateNewTask
    \/ MakeChecksumTaskWork
    \/ CompletionTask
    \/ MakeCheckSumReportTaskWork

SpecChecksum == Init /\ [][NextChecksum]_vars

\* checksum verification, single and multiple
NextVerify ==
    \/ Compare
    \/ VerifyDiscover
    \/ VerifyCreateNewTask
    \/ VerifyTaskWork
    \/ VerifyTaskWorkUnreadable

SpecVerify == Init /\ [][NextVerify]_vars

\* the report of a checksum verification
NextReport ==
    \/ ReportResults
    \/ GenerateReport

SpecReport == Init /\ [][NextReport]_vars

\* MARC retrieval
NextMarc ==
    \/ MarcCreateTasks
    \/ MarcGeneratorTaskWork

SpecMarc == Init /\ [][NextMarc]_vars

\* MARC retrieval: from the options to the subtasks
NextMarcJob ==
    \/ MarcSelectInput
    \/ MarcDiscoverTaskMetadata
    \/ MarcCreateNewTask

SpecMarcJob == Init /\ [][NextMarcJob]_vars

\* OCR: from the options to the text files
NextOcr ==
    \/ OcrSelectInput
    \/ OcrInitialTask
    \/ FindImagesTaskWork
    \/ OcrDiscoverTaskMetadata
    \/ OcrCreateNewTask
    \/ GenerateOCRFileTaskWork

SpecOcr == Init /\ [][NextOcr]_vars

\* CaptureOne conversion: from the options to the converted packages
NextCapture ==
    \/ CaptureSelectInput
    \/ CaptureDiscoverTaskMetadata
    \/ CaptureCreateNewTask
    \/ PackageConverterWork

SpecCapture == Init /\ [][NextCapture]_vars

\* MARC enhancement of one record
NextEnhance ==
    \/ EnhanceSelectRecord
    \/ Enhance955
    \/ Enhance035

SpecEnhance == Init /\ [][NextEnhance]_vars

\* the enhancement tasks of one MARC.XML, run by an executor that may run
\* them at the same time
NextMarcFile ==
    \/ MarcFileFetched
    \/ EnhancementParse
    \/ EnhancementOpen
    \/ EnhancementWrite

SpecMarcFile == Init /\ [][NextMarcFile]_vars

\* the report of a JP2 conversion
NextConvert ==
    \/ ConverterResultsGiven
    \/ ConverterGenerateReport

SpecConvert == Init /\ [][NextConvert]_vars

\* one run of Make JP2
NextMakeJp2 ==
    \/ MakeJp2Discover
    \/ MakeJp2CreateNewTask
    \/ EnsurePathTask_work
    \/ ConvertFileTask_work

SpecMakeJp2 == Init /\ [][NextMakeJp2]_vars

\* one call of registered_workflows
NextPlugin ==
    \/ CallRegisteredWorkflows
    \/ RegisterWorkflow
    \/ ReturnRegisteredWorkflows

SpecPlugin == Init /\ [][NextPlugin]_vars

\* ------------------------------------------------------------------------
\* Properties: post-order removal ordering
\* ------------------------------------------------------------------------
\* positions of entry x in a sequence of entries
Positions(seq, x) == {i \in 1..Len(seq) : seq[i] = x}

\* C1: in the sequence produced by get_contents_of_folder_for_removal(root)
\* every path located inside a directory D, at any depth, appears earlier
\* than D itself.
C1_ContentBeforeFolder ==
    mpc = "enumerated" =>
        \A i \in 1..Len(removal_order) :
            \A x \in Entries :
                Inside(x, removal_order[i]) =>
                    \E j \in 1..(i - 1) : removal_order[j] = x

\* a tree with a directory inside a directory and an entry inside that
C1_Witness ==
    /\ mpc = "enumerated"
    /\ \E x \in Entries : x # Root /\ fsParent[x] # Root

\* entries named by a list of delete tasks
TaskNode(tasks, i) == PathOf(tasks[i].path)

NoPathTwice(tasks) ==
    \A i, j \in 1..Len(tasks) : TaskNode(tasks, i) = TaskNode(tasks, j) => i = j

ContentTasksFirst(tasks) ==
    \A i \in 1..Len(tasks) :
        tasks[i].type = "directory" =>
            \A x \in Entries :
                Inside(x, TaskNode(tasks, i)) =>
                    \E j \in 1..(i - 1) : TaskNode(tasks, j) = x

\* C2: the delete-task list returned by discover_task_metadata names no path
\* twice, and a delete task for a directory comes after the delete tasks of
\* all paths inside that directory.
C2_NoDuplicateContentFirst ==
    mpc = "discovered" =>
        /\ NoPathTwice(new_tasks)
        /\ ContentTasksFirst(new_tasks)

\* ------------------------------------------------------------------------
\* Properties: offending paths
\* ------------------------------------------------------------------------
Flagged(x) ==
    \/ user_args.ds_store /\ fsName[x] = DS_STORE
    \/ user_args.thumbs_db /\ fsName[x] = THUMBS_DB
    \/ /\ user_args.dot_underscore
       /\ Len(fsName[x]) >= 2
       /\ fsName[x][1] = "."
       /\ fsName[x][2] = "_"
    \/ user_args.capture_one /\ fsName[x] = CAPTURE_ONE /\ fsKind[x] = "dir"

\* C3: locate_results reports a path exactly when an enabled rule flags it:
\* the name is ".DS_Store", the name is "Thumbs.db", the name starts with
\* "._", or it is a directory named "CaptureOne".  A plain file named
\* CaptureOne is not reported by the Capture One rule, and nothing is
\* reported when all four options are off.
C3_ReportedIffFlagged ==
    mpc = "located" =>
        /\ \A x \in Entries : (Positions(located, x) # {}) <=> Flagged(x)
        /\ (checkers = <<>>) => (located = <<>>)

\* a file named CaptureOne next to a flagged entry, Capture One rule enabled
C3_Witness ==
    /\ mpc = "located"
    /\ user_args.capture_one
    /\ \E x \in Entries : fsName[x] = CAPTURE_ONE /\ fsKind[x] = "file"
    /\ located # <<>>

\* ------------------------------------------------------------------------
\* Properties: checksum result grouping
\* ------------------------------------------------------------------------
RECURSIVE Count(_, _)
Count(seq, x) ==
    IF seq = <<>> THEN 0
    ELSE (IF Head(seq) = x THEN 1 ELSE 0) + Count(Tail(seq), x)

RECURSIVE GroupedCount(_, _)
GroupedCount(d, x) ==
    IF d = <<>> THEN 0
    ELSE Count(Head(d).value, x) + GroupedCount(Tail(d), x)

RECURSIVE GroupedTotal(_)
GroupedTotal(d) ==
    IF d = <<>> THEN 0 ELSE Len(Head(d).value) + GroupedTotal(Tail(d))

ReportPaths(results) == {results[i].checksum_file : i \in 1..Len(results)}

\* C4: sort_results partitions its input: every result is in exactly one
\* group, the key of a group is the checksum_file of its results, results
\* with the same checksum_file share a group, no group is empty and the
\* groups hold as many results as the input.
C4_SortResultsPartitions ==
    ck_pc = "completion" =>
        /\ \A i \in 1..Len(ck_sorted) :
              /\ ck_sorted[i].value # <<>>
              /\ \A j \in 1..Len(ck_sorted[i].value) :
                    ck_sorted[i].value[j].checksum_file = ck_sorted[i].key
        /\ \A i, j \in 1..Len(ck_sorted) :
              ck_sorted[i].key = ck_sorted[j].key => i = j
        /\ \A k \in 1..Len(ck_results) :
              GroupedCount(ck_sorted, ck_results[k]) =
                  Count(ck_results, ck_results[k])
        /\ GroupedTotal(ck_sorted) = Len(ck_results)

\* two reports, one of them with two results, results arriving interleaved
C4_Witness ==
    /\ ck_pc = "completion"
    /\ Len(ck_sorted) >= 2
    /\ \E i \in 1..Len(ck_sorted) : Len(ck_sorted[i].value) >= 2
    /\ \E i, j \in 1..Len(ck_results) :
          /\ i < j
          /\ sort_func(ck_results[i]) > sort_func(ck_results[j])

\* C5: completion_task adds exactly one MakeCheckSumReportTask per distinct
\* report path of the results, none when there are no results, and no
\* report file is written for a report path without results.
C5_OneReportTaskPerReportPath ==
    ck_pc = "completion" =>
        /\ {ck_report_tasks[i].output_filename :
               i \in 1..Len(ck_report_tasks)} = ReportPaths(ck_results)
        /\ Len(ck_report_tasks) = Cardinality(ReportPaths(ck_results))
        /\ (ck_results = <<>>) => (ck_report_tasks = <<>>)
        /\ \A w \in ck_written : w.path \in ReportPaths(ck_results)

\* a package directory without files next to one with files, reports written
C5_Witness ==
    /\ ck_pc = "completion"
    /\ ck_workflow = "multiple"
    /\ \E d \in ck_dirs : \A f \in ck_files : f.dir # d
    /\ ck_written # {}
    /\ \A i \in 1..Len(ck_report_tasks) : ck_report_tasks[i].done

\* the entries that name file f of the Input directory
EntriesOf(entries, f) ==
    {i \in 1..Len(entries) : entries[i].filename = relpath(f, Input)}

\* C6: for an Input directory with N >= 1 files, one run of Make Checksum
\* Batch [Single] yields exactly one MakeCheckSumReportTask, for
\* <Input>/checksum.md5, with exactly one entry per file holding the hash
\* calculated for that file; the report it writes has those N entries.
C6_SingleRunOneReport ==
    (ck_pc = "completion" /\ ck_workflow = "single" /\ ck_files # {}) =>
        /\ Len(ck_report_tasks) = 1
        /\ ck_report_tasks[1].output_filename = report_path(Input)
        /\ LET entries ==
                  report_entries(ck_report_tasks[1].checksum_calculations)
           IN  /\ Len(entries) = Cardinality(ck_files)
               /\ \A f \in ck_files :
                     /\ Cardinality(EntriesOf(entries, f)) = 1
                     /\ \A i \in EntriesOf(entries, f) :
                           entries[i].hash_value = ck_md5[f]
               /\ \A w \in ck_written :
                     w = [path |-> report_path(Input), entries |-> entries]

\* three files with two different contents, the report written
C6_Witness ==
    /\ ck_pc = "completion"
    /\ ck_workflow = "single"
    /\ Cardinality(ck_files) = 3
    /\ \E f, g \in ck_files : ck_md5[f] # ck_md5[g]
    /\ \E w \in ck_written : Len(w.entries) = 3

\* ------------------------------------------------------------------------
\* Properties: checksum verification
\* ------------------------------------------------------------------------
\* the same letters, whatever their case
SameIgnoringCase(a, b) ==
    /\ Len(a) = Len(b)
    /\ \A i \in 1..Len(a) :
          \/ a[i] = b[i]
          \/ {a[i], b[i]} = {"a", "A"}
          \/ {a[i], b[i]} = {"b", "B"}

\* C7: CaseSensitiveComparison.compare(a, b) is True exactly when a equals
\* b, CaseInsensitiveComparison.compare(a, b) exactly when a and b are equal
\* after lower-casing; strings that differ only in letter case compare False
\* under the first and True under the second.
C7_CompareMethods ==
    vf_pc = "compared" =>
        LET a == cmp_args[1]
            b == cmp_args[2]
        IN  /\ cmp_result.sensitive <=>
                  (Len(a) = Len(b) /\ \A i \in 1..Len(a) : a[i] = b[i])
            /\ cmp_result.insensitive <=> SameIgnoringCase(a, b)

\* "aA" against "Aa": equal only when the case is ignored
C7_Witness ==
    /\ vf_pc = "compared"
    /\ cmp_args = << <<"a", "A">>, <<"A", "a">> >>
    /\ ~ cmp_result.sensitive
    /\ cmp_result.insensitive

ResultsOf(i) == {k \in 1..Len(vf_results) : vf_results[k].filename = i}

\* C8: a checksum mismatch does not abort the batch: work of
\* ValidateChecksumTask and of ChecksumTask, once the hash of the file is
\* calculated, returns True and records one result for the file, valid
\* exactly when the calculated hash equals the expected one ignoring case.
C8_MismatchIsRecorded ==
    \A i \in 1..Len(vf_tasks) :
        /\ vf_tasks[i] \in {"created", "returned True", "raised OSError"}
        /\ vf_tasks[i] = "raised OSError" => ~ vf_md5[i].readable
        /\ Cardinality(ResultsOf(i)) =
              (IF vf_tasks[i] = "returned True" THEN 1 ELSE 0)
        /\ \A k \in ResultsOf(i) :
              vf_results[k].valid <=>
                  SameIgnoringCase(vf_md5[i].md5, vf_jobs[i].expected_hash)

\* a mismatch recorded first, then a file whose hash differs only in case
C8_Witness ==
    /\ Len(vf_results) = 2
    /\ ~ vf_results[1].valid
    /\ vf_results[2].valid
    /\ vf_md5[vf_results[2].filename].md5
          # vf_jobs[vf_results[2].filename].expected_hash

\* ------------------------------------------------------------------------
\* Properties: MARC retrieval
\* ------------------------------------------------------------------------
\* C9: on an HTTP error status MarcGeneratorTask.work raises JobCancelled
\* saying the record could not be located for the identifier; it writes no
\* MARC.XML and sets no result.
C9_HttpErrorCancelsJob ==
    \A i \in 1..Len(mk_tasks) :
        mk_tasks[i].response = "http error" =>
            /\ mk_tasks[i].status = "raised"
            /\ mk_tasks[i].exception =
                  [type |-> "JobCancelled",
                   message |-> "Unable to locate record with identifier",
                   identifier |-> mk_tasks[i].identifier]
            /\ mk_tasks[i].result = <<>>
            /\ \A f \in mk_files : f.path # mk_tasks[i].output_name

\* a record answered with an HTTP error after another one was written
C9_Witness ==
    /\ \E i \in 1..Len(mk_tasks) : mk_tasks[i].response = "http error"
    /\ mk_files # {}

FetchFailures == {"http error", "connection error", "read timeout"}

\* C10 as stated: a failed fetch is captured in the result of the item
\* (success False, the identifier, the reason) and work does not raise.
C10_FailedFetchCaptured ==
    \A i \in 1..Len(mk_tasks) :
        mk_tasks[i].response \in FetchFailures =>
            /\ mk_tasks[i].status # "raised"
            /\ Len(mk_tasks[i].result) = 1
            /\ mk_tasks[i].result[1].success = FALSE
            /\ mk_tasks[i].result[1].identifier = mk_tasks[i].identifier

\* C10 amended: MarcGeneratorTask.work raises for every failed fetch.  An
\* HTTP error status raises JobCancelled and a read timeout passes through,
\* both without a result; only a connection error is recorded in the result
\* (success False, the identifier, the reason) before SpeedwagonException
\* is raised.
C10_FailedFetchRaises ==
    \A i \in 1..Len(mk_tasks) :
        mk_tasks[i].response \in FetchFailures =>
            /\ mk_tasks[i].status = "raised"
            /\ mk_tasks[i].response = "http error" =>
                  /\ mk_tasks[i].exception.type = "JobCancelled"
                  /\ mk_tasks[i].result = <<>>
            /\ mk_tasks[i].response = "read timeout" =>
                  /\ mk_tasks[i].exception.type = "ReadTimeout"
                  /\ mk_tasks[i].result = <<>>
            /\ mk_tasks[i].response = "connection error" =>
                  /\ mk_tasks[i].exception.type = "SpeedwagonException"
                  /\ mk_tasks[i].result =
                        <<[success |-> FALSE,
                           identifier |-> mk_tasks[i].identifier,
                           output |-> "ConnectionError"]>>

\* a connection error on one record and an HTTP error on another
C10_Witness ==
    \E i, j \in 1..Len(mk_tasks) :
        /\ mk_tasks[i].response = "connection error"
        /\ mk_tasks[j].response = "http error"

\* ------------------------------------------------------------------------
\* Properties: MARC job discovery
\* ------------------------------------------------------------------------
\* C11: when the 'Getmarc server url' configuration value is not set,
\* discover_task_metadata raises MissingConfiguration before it scans the
\* input directory and returns no job, so no MARC subtask is ever created.
C11_MissingServerUrlAborts ==
    (gm_config = <<>> /\ gm_pc \notin {"idle", "selected"}) =>
        /\ gm_pc = "raised"
        /\ Len(gm_error) = 1
        /\ gm_error[1].type = "MissingConfiguration"
        /\ gm_scanned = 0
        /\ gm_jobs = <<>>
        /\ gm_next = 0
        /\ gm_subtasks = <<>>

\* the url is not set and Input holds a well named folder
C11_Witness ==
    /\ gm_config = <<>>
    /\ gm_pc = "raised"
    /\ \E i \in 1..Len(gm_scan) :
          gm_scan[i].is_dir /\ gm_scan[i].name = <<"1", "0">>

\* a name that is all digits
IsNumber(name) == \A i \in 1..Len(name) : name[i] \in Digits

\* a leading zero, or no "v" and not a number
BadlyFormed(name) ==
    /\ ~ contains(name, "v")
    /\ \/ name[1] = "0"
       \/ ~ IsNumber(name)

\* C13: when a subdirectory of Input has a badly formed name (a leading
\* zero, or a name without "v" that cannot be read as a number),
\* discover_task_metadata raises JobCancelled with a message containing the
\* offending path and returns no jobs; no other exception type escapes
\* discover_task_metadata because of a directory's name.
C13_BadNameCancelsJob ==
    (gm_config # <<>> /\ gm_pc \notin {"idle", "selected"} /\ gm_next = 0) =>
        /\ (\E i \in 1..Len(gm_scan) :
                gm_scan[i].is_dir /\ BadlyFormed(gm_scan[i].name)) =>
              /\ gm_pc = "raised"
              /\ gm_error[1].type = "JobCancelled"
              /\ \E i \in 1..Len(gm_scan) :
                    /\ gm_scan[i].is_dir
                    /\ BadlyFormed(gm_scan[i].name)
                    /\ gm_error[1].path = <<entry_path(gm_scan[i].name)>>
              /\ gm_jobs = <<>>
        /\ gm_pc = "raised" => gm_error[1].type = "JobCancelled"

\* ------------------------------------------------------------------------
\* Properties: OCR configuration and the shared engine
\* ------------------------------------------------------------------------
\* the options name a supported image type, so initial_task does not cancel
OcrOptionsValid == get_file_extension(oc_args.file_type) # <<>>

\* C12 as stated: when the 'Tesseract data file location' value is not set,
\* the OCR workflow is aborted with MissingConfiguration before any subtask
\* runs, the FindImagesTask added by initial_task included.
C12_AbortsBeforeAnySubtask ==
    (oc_config = <<>> /\ OcrOptionsValid) =>
        /\ \A i \in 1..Len(oc_subtasks) : oc_subtasks[i].status = "created"
        /\ oc_pc = "raised" => oc_error[1].type = "MissingConfiguration"

\* C12 amended: when the 'Tesseract data file location' value is not set,
\* discover_task_metadata raises InvalidConfiguration, so the workflow ends
\* there and no GenerateOCRFileTask is ever created; the FindImagesTask of
\* initial_task is the one subtask of the job and has run by then.
C12_AbortsBeforeOcrSubtasks ==
    (oc_config = <<>> /\ OcrOptionsValid) =>
        /\ oc_pc # "discovered"
        /\ \A i \in 1..Len(oc_subtasks) :
              oc_subtasks[i].task = "FindImagesTask"
        /\ oc_pc = "raised" =>
              /\ oc_error[1].type = "InvalidConfiguration"
              /\ oc_error[1].raised_by = "discover_task_metadata"
              /\ Len(oc_subtasks) = 1
              /\ oc_subtasks[1].status = "returned True"

\* the value is not set and the FindImagesTask has found an image
C12_Witness ==
    /\ oc_config = <<>>
    /\ oc_pc = "raised"
    /\ oc_initial_results # <<>>
    /\ oc_args.language = "English"

\* C19: no subtask shares mutable state with another: while a
\* GenerateOCRFileTask instance has yet to read its OCR engine, no step of
\* another subtask, its construction included, changes the engine it reads.
C19_NoSharedMutableState ==
    [][(\E i \in 1..Len(oc_subtasks) :
            /\ oc_subtasks[i].task = "GenerateOCRFileTask"
            /\ oc_subtasks[i].status = "created")
       => oc_engine' = oc_engine]_vars

\* ------------------------------------------------------------------------
\* Properties: CaptureOne conversion
\* ------------------------------------------------------------------------
\* C14 as stated: when the selected 'Package Type' is not one of the
\* supported package sources, discover_task_metadata raises JobCancelled
\* with a reason naming the package type.
C14_UnknownTypeCancelsJob ==
    (co_pc \notin {"idle", "selected"}
     /\ co_args.package_type \notin SUPPORTED_PACKAGE_SOURCES) =>
        /\ co_pc = "raised"
        /\ co_error[1].type = "JobCancelled"
        /\ co_error[1].names = co_args.package_type

\* C14 amended: when the selected 'Package Type' is not one of the supported
\* package sources, discover_task_metadata raises ValueError with the
\* message "Unknown package type" naming the package type; no job is
\* returned and no subtask is created.
C14_UnknownTypeRaisesValueError ==
    (co_pc \notin {"idle", "selected"}
     /\ co_args.package_type \notin SUPPORTED_PACKAGE_SOURCES) =>
        /\ co_pc = "raised"
        /\ co_error[1].type = "ValueError"
        /\ co_error[1].message = "Unknown package type"
        /\ co_error[1].names = co_args.package_type
        /\ co_jobs = <<>>
        /\ co_subtasks = <<>>

\* an unsupported type, although the Input directory holds packages
C14_Witness ==
    /\ co_pc = "raised"
    /\ co_args.package_type \notin SUPPORTED_PACKAGE_SOURCES
    /\ co_locate.found > 0
    /\ ~ co_locate.fails

\* C15: for a supported package type discover_task_metadata has exactly
\* three outcomes: SpeedwagonException when locating packages fails,
\* JobCancelled when locating succeeds but finds no package, and otherwise
\* a non-empty list with exactly one job per located package; it never
\* returns an empty list.
C15_ThreeOutcomes ==
    (co_pc \notin {"idle", "selected"}
     /\ co_args.package_type \in SUPPORTED_PACKAGE_SOURCES) =>
        /\ co_locate.fails =>
              /\ co_pc = "raised"
              /\ co_error[1].type = "SpeedwagonException"
              /\ co_error[1].message = "Failed to locate packages at"
        /\ (~ co_locate.fails /\ co_locate.found = 0) =>
              /\ co_pc = "raised"
              /\ co_error[1].type = "JobCancelled"
        /\ (~ co_locate.fails /\ co_locate.found > 0) =>
              /\ co_pc = "discovered"
              /\ Len(co_jobs) = co_locate.found
              /\ \A i \in 1..Len(co_jobs) : co_jobs[i].package = i
        /\ co_pc = "discovered" => co_jobs # <<>>
        /\ co_pc = "raised" => co_jobs = <<>>

\* locating fails after a package was yielded
C15_Witness ==
    /\ co_pc = "raised"
    /\ co_args.package_type \in SUPPORTED_PACKAGE_SOURCES
    /\ co_locate.fails
    /\ co_locate.found > 0

\* an output parameter that names a directory
OutputIsSet(value) == value # <<>> /\ strip(value[1]) # <<>>

TasksOf(package, package_format) ==
    {i \in 1..Len(co_subtasks) :
        /\ co_subtasks[i].package = package
        /\ co_subtasks[i].package_format = package_format}

\* C20: an empty output parameter (None, or a string that is empty or only
\* whitespace) results in that output format not being made: create_new_task
\* adds one PackageConverter for each non-empty output and none for an empty
\* one, so the number of conversion tasks per package equals the number of
\* non-empty outputs.
C20_EmptyOutputNotMade ==
    (co_pc = "discovered" /\ co_next = Len(co_jobs)) =>
        \A p \in 1..Len(co_jobs) :
            /\ Cardinality(TasksOf(p, "Digital Library Compound")) =
                  (IF OutputIsSet(co_args.output_dl) THEN 1 ELSE 0)
            /\ Cardinality(TasksOf(p, "HathiTrust jp2")) =
                  (IF OutputIsSet(co_args.output_ht) THEN 1 ELSE 0)
            /\ Cardinality({i \in 1..Len(co_subtasks) :
                                co_subtasks[i].package = p}) =
                  (IF OutputIsSet(co_args.output_dl) THEN 1 ELSE 0)
                  + (IF OutputIsSet(co_args.output_ht) THEN 1 ELSE 0)

\* ------------------------------------------------------------------------
\* Properties: MARC enhancement
\* ------------------------------------------------------------------------
\* C16: enhance_tree_with_955 returns a tree that contains every
\* pre-existing datafield (none lost, none duplicated, contents unchanged)
\* plus exactly one new 955 datafield holding the added value in subfield
\* "b", and the datafields appear in non-decreasing numeric tag order.
C16_Adds955KeepsFields ==
    en_pc = "enhanced 955" =>
        LET new == [kind |-> "datafield", tag |-> <<"9", "5", "5">>,
                    code |-> "b", text |-> en_added_value,
                    rest |-> <<>>]
            before == findall_datafield(en_tree)
            after == findall_datafield(en_result)
        IN  /\ \A e \in DataFields \cup UiuFields \cup {new} :
                  Count(after, e) =
                      Count(before, e) + (IF e = new THEN 1 ELSE 0)
            /\ Len(after) = Len(before) + 1
            /\ \A i, j \in 1..Len(after) :
                  i < j => int(after[i].tag) <= int(after[j].tag)
            /\ \A e \in OtherFields :
                  Count(en_result, e) = Count(en_tree, e)

\* a record that already has the same 955 field, out of tag order
C16_Witness ==
    /\ en_pc = "enhanced 955"
    /\ Len(en_tree) >= 3
    /\ en_tree[1].tag = <<"9", "5", "5">>
    /\ en_tree[1].text = en_added_value
    /\ en_tree[2].kind = "datafield"
    /\ en_tree[2].tag = <<"0", "3", "5">>
    /\ en_tree[3].kind = "leader"

\* C17: every MarcGeneratorTask.work that has run issued exactly one HTTP GET,
\* whatever the server answered (no retry), and the request went to
\* <server>/api/record with the query bib_id=<identifier> for a 'Bibid' task
\* and mms_id=<identifier> for an 'MMS ID' task.
C17_OneGetPerWork ==
    LET worked == {i \in 1..Len(mk_tasks) : mk_tasks[i].status # "created"}
    IN  /\ Len(mk_http) = Cardinality(worked)
        /\ \A i \in worked :
              \E k \in 1..Len(mk_http) :
                 mk_http[k] =
                    [server |-> mk_tasks[i].server_url,
                     path |-> "/api/record",
                     query |-> CASE mk_tasks[i].identifier_type = "Bibid"
                                      -> "bib_id"
                                 [] mk_tasks[i].identifier_type = "MMS ID"
                                      -> "mms_id",
                     ident |-> mk_tasks[i].identifier]

C17_Witness ==
    /\ Len(mk_tasks) = MaxRecords
    /\ \A i \in 1..Len(mk_tasks) : mk_tasks[i].status # "created"
    /\ \E i \in 1..Len(mk_tasks) :
          /\ mk_tasks[i].identifier_type = "MMS ID"
          /\ mk_tasks[i].response = "http error"
    /\ \E k \in 1..Len(mk_http) : mk_http[k].query = "mms_id"

\* C18: the mapping registered_workflows returns has, for every class of the
\* active list, an entry from that class's display name to that class; the
\* display names of the list are pairwise distinct, so the mapping has as
\* many entries as the list and no class is replaced by a later one.
C18_EveryActiveWorkflowRegistered ==
    pl_pc = "returned" =>
        /\ \A i \in 1..Len(active_workflows) :
              /\ Len(active_workflows[i].name) = 1
              /\ active_workflows[i].name[1] \in DOMAIN pl_mapping
              /\ pl_mapping[active_workflows[i].name[1]]
                    = active_workflows[i].class
        /\ \A i, j \in 1..Len(active_workflows) :
              i # j => active_workflows[i].name # active_workflows[j].name
        /\ Cardinality(DOMAIN pl_mapping) = Len(active_workflows)
        /\ DOMAIN pl_mapping = ExpectedWorkflows

C18_Witness ==
    /\ pl_pc = "returned"
    /\ pl_expected = "Make Checksum Batch [Single]"
    /\ pl_found
    /\ pl_mapping["Make Checksum Batch [Multiple]"]
          = "MakeChecksumBatchMultipleWorkflow"

\* the position of entry x in the removal order (0 when it is not listed)
PositionOf(x) ==
    IF Positions(removal_order, x) = {} THEN 0
    ELSE CHOOSE i \in Positions(removal_order, x) : TRUE

\* the entries directly in directory d that are not directories
PlainFilesOf(d) == {f \in Entries \ {Root} : fsParent[f] = d /\ ~is_dir(f)}

\* C22: in the sequence produced by get_contents_of_folder_for_removal(root),
\* for every directory D under root (root included) the plain files directly
\* in D come after the whole listing of each of D's subdirectories, in the
\* order the iteration of D found them, and D comes immediately after its
\* last plain file; every path under root appears exactly once, and root is
\* the last element.
C22_FilesAfterSubdirectories ==
    mpc = "enumerated" =>
        /\ Len(removal_order) = Cardinality(Entries)
        /\ \A x \in Entries : Cardinality(Positions(removal_order, x)) = 1
        /\ removal_order[Len(removal_order)] = Root
        /\ \A d \in Entries :
              is_dir(d) =>
                 /\ \A f \in PlainFilesOf(d) :
                       \A sub \in Entries \ {Root} :
                          (fsParent[sub] = d /\ is_dir(sub)) =>
                             /\ PositionOf(sub) < PositionOf(f)
                             /\ \A x \in Entries :
                                   Inside(x, sub) =>
                                      PositionOf(x) < PositionOf(f)
                 /\ \A f, g \in PlainFilesOf(d) :
                       f < g => PositionOf(f) < PositionOf(g)
                 /\ \A f \in PlainFilesOf(d) :
                       (\A g \in PlainFilesOf(d) : g <= f) =>
                          PositionOf(d) = PositionOf(f) + 1

\* a plain file found before a subdirectory that has content of its own
C22_Witness ==
    /\ mpc = "enumerated"
    /\ \E f, sub, x \in Entries \ {Root} :
          /\ fsParent[f] = Root /\ ~is_dir(f)
          /\ fsParent[sub] = Root /\ is_dir(sub)
          /\ f < sub
          /\ fsParent[x] = sub
          /\ PositionOf(x) < PositionOf(f)

\* C28: when 'Include Subdirectories' is off, FindOffendingFiles reports
\* no path that lies inside a subdirectory of the chosen Path: every
\* reported entry is directly in Path (or is Path itself).
C28_SubdirectoriesOnlyWhenIncluded ==
    (mpc = "located" /\ ~user_args.include_subdirectories) =>
        \A i \in 1..Len(located) :
            \/ located[i] = Root
            \/ fsParent[located[i]] = Root

SameFile(k, j) == gm_subtasks[k].xml_file = gm_subtasks[j].xml_file

\* C24: the subtasks create_new_task adds for one record are, in this
\* order, a MarcGeneratorTask, a MarcEnhancement955Task when 955 is enabled
\* and a MarcEnhancement035Task when 035 is enabled, all for the same
\* MARC.XML; an enhancement task never comes before, or without, the task
\* that fetches the file it enhances.
C24_FetchThenEnhancements ==
    \A k \in 1..Len(gm_subtasks) :
        LET t == gm_subtasks[k]
            followed_by(name) ==
                /\ k < Len(gm_subtasks)
                /\ gm_subtasks[k + 1].task = name
                /\ SameFile(k, k + 1)
            follows(name) ==
                /\ k > 1
                /\ gm_subtasks[k - 1].task = name
                /\ SameFile(k, k - 1)
        IN  /\ t.task = "MarcGeneratorTask" =>
                 /\ gm_args.add_955 => followed_by("MarcEnhancement955Task")
                 /\ (~gm_args.add_955 /\ gm_args.add_035) =>
                       followed_by("MarcEnhancement035Task")
                 /\ (~gm_args.add_955 /\ ~gm_args.add_035) =>
                       (k < Len(gm_subtasks) =>
                           gm_subtasks[k + 1].task = "MarcGeneratorTask")
            /\ t.task = "MarcEnhancement955Task" =>
                 /\ gm_args.add_955
                 /\ follows("MarcGeneratorTask")
                 /\ gm_args.add_035 => followed_by("MarcEnhancement035Task")
            /\ t.task = "MarcEnhancement035Task" =>
                 /\ gm_args.add_035
                 /\ follows(IF gm_args.add_955
                            THEN "MarcEnhancement955Task"
                            ELSE "MarcGeneratorTask")
                 /\ \E j \in 1..(k - 1) :
                       /\ gm_subtasks[j].task = "MarcGeneratorTask"
                       /\ SameFile(k, j)

\* two records, each with its three subtasks
C24_Witness ==
    /\ Len(gm_subtasks) = 6
    /\ gm_subtasks[4].task = "MarcGeneratorTask"
    /\ gm_subtasks[5].task = "MarcEnhancement955Task"
    /\ gm_subtasks[6].task = "MarcEnhancement035Task"
    /\ ~SameFile(1, 4)

\* C25: a MarcEnhancement035Task is added only if a MarcEnhancement955Task
\* is added for the same MARC.XML file.
C25_035Requires955 ==
    \A k \in 1..Len(gm_subtasks) :
        gm_subtasks[k].task = "MarcEnhancement035Task" =>
            \E j \in 1..Len(gm_subtasks) :
                /\ gm_subtasks[j].task = "MarcEnhancement955Task"
                /\ SameFile(k, j)

\* the subfields of 959 datafields of the parsed record that name UIUdb, as
\* <<position of the datafield, position of the subfield in it>>
UiudbPlaces ==
    {p \in (1..Len(en_tree)) \X (1..2) :
        /\ en_tree[p[1]].kind = "datafield"
        /\ en_tree[p[1]].tag = <<"9", "5", "9">>
        /\ p[2] <= 1 + Len(en_tree[p[1]].rest)
        /\ (IF p[2] = 1 THEN en_tree[p[1]].text
            ELSE en_tree[p[1]].rest[1].text)
              \in {"(UIUdb)1", "(UIUdb)2", "UIUdb3"}}

\* the 035 datafield the first of these subfields gives
Expected035 ==
    LET p == CHOOSE p \in UiudbPlaces :
                \A q \in UiudbPlaces :
                    p[1] < q[1] \/ (p[1] = q[1] /\ p[2] <= q[2])
        data == IF p[2] = 1
                THEN [code |-> en_tree[p[1]].code,
                      text |-> en_tree[p[1]].text]
                ELSE en_tree[p[1]].rest[1]
    IN  [kind |-> "datafield", tag |-> <<"0", "3", "5">>,
         code |-> data.code,
         text |-> CASE data.text = "(UIUdb)1" -> "(UIU)Voyager1"
                    [] data.text = "(UIUdb)2" -> "(UIU)Voyager2"
                    [] data.text = "UIUdb3" -> "UIUdb3",
         rest |-> <<>>]

\* C23: MarcEnhancement035Task.work returns True.  When some 959 datafield
\* has a subfield whose text contains 'UIUdb', the file is written with
\* exactly one more 035 datafield, a copy of the first such subfield with
\* '(UIUdb)' replaced by '(UIU)Voyager', every pre-existing datafield kept
\* and the datafields in tag order; otherwise the file is not written and
\* keeps its content.
C23_Adds035FromFirstUiudb ==
    en_pc = "enhanced 035" =>
        /\ en_returned = <<TRUE>>
        /\ IF UiudbPlaces # {}
           THEN LET before == findall_datafield(en_tree)
                    after == findall_datafield(en_file)
                IN  /\ en_written
                    /\ \A e \in DataFields \cup UiuFields \cup {Expected035} :
                          Count(after, e) =
                             Count(before, e)
                             + (IF e = Expected035 THEN 1 ELSE 0)
                    /\ Len(after) = Len(before) + 1
                    /\ \A i, j \in 1..Len(after) :
                          i < j => int(after[i].tag) <= int(after[j].tag)
                    /\ \A e \in OtherFields :
                          Count(en_file, e) = Count(en_tree, e)
           ELSE /\ ~en_written
                /\ en_file = en_tree

\* the first subfield naming UIUdb is the second subfield of a 959
\* datafield, and a later 959 datafield names UIUdb too
C23_Witness ==
    /\ en_pc = "enhanced 035"
    /\ en_written
    /\ Len(en_tree) >= 2
    /\ en_tree[1].tag = <<"9", "5", "9">>
    /\ en_tree[1].text = "x"
    /\ en_tree[1].rest # <<>>
    /\ en_tree[2].tag = <<"9", "5", "9">>
    /\ en_tree[2].text = "(UIUdb)1"
    /\ \E i \in 1..Len(en_file) : en_file[i].text = "(UIU)Voyager2"

\* C29: when the MarcEnhancement955Task and the MarcEnhancement035Task of
\* one MARC.XML, whose record has a 959 subfield containing 'UIUdb', have
\* both completed, the file holds the added 955 datafield and the added 035
\* datafield, however their steps were interleaved.
C29_BothEnhancementsKept ==
    (/\ mf_pc = "fetched"
     /\ \A t \in EnhancementTasks : mf_tasks[t].pc = "returned"
     /\ find_959_field_with_uiudb(mf_tasks["MarcEnhancement035Task"].tree)
           # <<>>) =>
        /\ ~mf_garbled
        /\ mf_file # <<>>
        /\ \E i \in 1..Len(mf_file[1]) :
              /\ mf_file[1][i].tag = <<"9", "5", "5">>
              /\ mf_file[1][i].text = mf_added_value
        /\ \E i \in 1..Len(mf_file[1]) :
              /\ mf_file[1][i].tag = <<"0", "3", "5">>
              /\ mf_file[1][i].text \in
                    {"(UIU)Voyager1", "(UIU)Voyager2", "UIUdb3"}

\* the validation results among the results given to generate_report
ValidationResults ==
    {i \in 1..Len(rp_results) :
        rp_results[i].source \in {"ValidateChecksumTask", "ChecksumTask"}}

FailedOf(checksum_file) ==
    {i \in ValidationResults :
        /\ rp_results[i].data.checksum_report_file = checksum_file
        /\ ~rp_results[i].data.valid}

\* C27: the report of the checksum verification workflows is the 'Success'
\* text exactly when no validation result has valid False; otherwise it has
\* one message for each checksum report file with at least one failed
\* result and for no other file, giving the file's name, the number of its
\* failed results and one bullet for each of exactly those failed file
\* names.
C27_ReportListsFailedFiles ==
    rp_pc = "reported" =>
        LET files == {rp_results[i].data.checksum_report_file :
                         i \in ValidationResults}
            failing == {f \in files : FailedOf(f) # {}}
            messages == rp_report.messages
        IN  /\ rp_report.success <=> (failing = {})
            /\ rp_report.success => messages = <<>>
            /\ {messages[m].checksum_file : m \in 1..Len(messages)} = failing
            /\ Len(messages) = Cardinality(failing)
            /\ \A m \in 1..Len(messages) :
                  LET f == messages[m].checksum_file
                  IN  /\ messages[m].failed = Cardinality(FailedOf(f))
                      /\ Len(messages[m].bullets) = Cardinality(FailedOf(f))
                      /\ \A name \in 1..2 :
                            Cardinality({k \in 1..Len(messages[m].bullets) :
                                            messages[m].bullets[k] = name})
                            = Cardinality({i \in FailedOf(f) :
                                  rp_results[i].data.filename = name})

\* two report files, the later one first in the results; one file failed in
\* one report and passed in the other
C27_Witness ==
    /\ rp_pc = "reported"
    /\ ~rp_report.success
    /\ Len(rp_results) >= 3
    /\ rp_results[1].source # "ReadChecksumReportTask"
    /\ rp_results[2].source # "ReadChecksumReportTask"
    /\ rp_results[3].source # "ReadChecksumReportTask"
    /\ rp_results[1].data.checksum_report_file.dir = 2
    /\ ~rp_results[1].data.valid
    /\ rp_results[2].data.checksum_report_file.dir = 1
    /\ rp_results[2].data.valid
    /\ rp_results[3].data.checksum_report_file.dir = 2
    /\ rp_results[3].data.valid
    /\ Len(rp_report.messages) = 1

\* C30: in the success report of ChecksumWorkflow the number N of 'All N
\* passed checksum validation.' is the number of ValidateChecksumTask
\* results, also when the results hold results of other tasks.
C30_SuccessCountsValidatedFiles ==
    (rp_pc = "reported" /\ rp_workflow = "multiple" /\ rp_report.success) =>
        rp_report.count =
            Cardinality({i \in 1..Len(rp_results) :
                            rp_results[i].source = "ValidateChecksumTask"})

\* C21: for a non-empty list of results, the report of
\* ConvertTiffPreservationToDLJp2Workflow says 'Success' exactly when every
\* result has success True, and otherwise says 'Failed' and lists the
\* source file of every result whose success is False.
C21_ReportTellsSuccessFromFailure ==
    (cr_pc = "reported" /\ cr_results # <<>>) =>
        LET failed == {i \in 1..Len(cr_results) : ~cr_results[i].success}
        IN  /\ (cr_report.status = "Success!") <=> (failed = {})
            /\ failed # {} =>
                  /\ cr_report.status = "Failed!"
                  /\ \A i \in failed :
                        \E k \in 1..Len(cr_report.failed_list) :
                           cr_report.failed_list[k]
                              = cr_results[i].source_filename

\* C26: create_new_task of Make JP2 adds exactly two subtasks per job, an
\* EnsurePathTask for destination_root/relative_location and then a
\* ConvertFileTask whose destination file lies directly in that folder and
\* is named after the source file with the extension .jp2; no conversion
\* is added before the task that creates its folder, so none runs without it.
C26_EnsurePathThenConvert ==
    /\ Len(mj_subtasks) = 2 * mj_next
    /\ \A k \in 1..mj_next :
        LET job_args == mj_jobs[k]
            folder == job_args.destination_root \o job_args.relative_location
            make_dir == mj_subtasks[2 * k - 1]
            convert_task == mj_subtasks[2 * k]
            destination_file == convert_task.destination_file
        IN  /\ make_dir.task = "EnsurePathTask"
            /\ make_dir.path = folder
            /\ convert_task.task = "ConvertFileTask"
            /\ Len(destination_file) = Len(folder) + 1
            /\ SubSeq(destination_file, 1, Len(folder)) = folder
            /\ \E n \in 1..Len(job_args.source_file) :
                /\ SubSeq(job_args.source_file, n + 1,
                          Len(job_args.source_file)) \in {".tif", ".TIF"}
                /\ destination_file[Len(destination_file)] =
                       SubSeq(job_args.source_file, 1, n) \o ".jp2"
    /\ \A i \in 1..Len(mj_subtasks) :
        mj_subtasks[i].task = "ConvertFileTask" =>
            \E j \in 1..(i - 1) :
                /\ mj_subtasks[j].task = "EnsurePathTask"
                /\ Len(mj_subtasks[i].destination_file)
                       = Len(mj_subtasks[j].path) + 1
                /\ SubSeq(mj_subtasks[i].destination_file, 1,
                          Len(mj_subtasks[j].path)) = mj_subtasks[j].path
    /\ mj_pc # "raised"

\* two tif files of two access folders were converted, one of them with a
\* dot inside its name, into folders the run had to create
C26_Witness ==
    /\ mj_next = 2
    /\ mj_ran = 4
    /\ mj_jobs[1].relative_location # mj_jobs[2].relative_location
    /\ mj_user_args.Output = <<"out", ".">>
    /\ \E f \in mj_created : f[Len(f)] = "c.d.jp2"
    /\ \E f \in mj_created : f[Len(f)] = "b.jp2"

=============================================================================
